---- MODULE Spec2Model ----
(***************************************************************************)
(* A model of the comprehensive website crawler:                           *)
(*   src/lib/comprehensive-crawler.ts      the crawl engine                *)
(*   src/app/api/crawl-website/route.ts    the synchronous start handler   *)
(*   src/unnamed/part_006 (lines 241-355)  the background start handler    *)
(*   src/unnamed/part_003                  the database schema             *)
(*                                                                         *)
(* JavaScript runs one callback at a time, so an action of the model is    *)
(* the code that runs between two awaits of real I/O (a page fetch, a      *)
(* timer, a database query).                                               *)
(***************************************************************************)
EXTENDS Integers, Sequences, FiniteSets, TLC

\* ------------------------------------------------------------------ bounds
\* maxPages of a request is drawn from 1..MaxPagesBound
MaxPagesBound == 3
\* depth (maxDepth) of a request is 0, 1 or MaxDepthBound
MaxDepthBound == 2
\* number of start requests in one behaviour
MaxCrawls == 2
\* requests to the synchronous handler that are in flight together
MaxRequests == 2
\* pending calls of parseSitemap that are kept of a nest: the innermost ones
MaxNesting == 4
\* the Clients a process makes
MaxClients == 2
\* concurrency of a request (size of the worker pool)
MaxConcurrency == 2
\* pages between two periodic checkpoint saves; the source sets 50
\* (comprehensive-crawler.ts:372), the model scales the interval down so
\* that a periodic save happens within MaxPagesBound pages
saveInterval == 1

\* ------------------------------------------------------- the modelled web
\* URLs are the strings the crawler handles.  What the code derives from a
\* URL string (hostname, ".xml" suffix, classifier regexes) is tabulated
\* below for exactly these strings.
Root  == "https://example.test/"
PA    == "https://example.test/a"
PB    == "https://example.test/blog/b"
Home  == "https://example.test/home"
List2 == "https://example.test/list?page=2"
Blog  == "https://blog.example.test/"
Feed  == "https://example.test/feed.xml"
Ext   == "https://other.test/x"
\* a relative href, and what it resolves to against /home, /a and /
RelPage2 == "?page=2"
HomeP2 == "https://example.test/home?page=2"
PAP2   == "https://example.test/a?page=2"
RootP2 == "https://example.test/?page=2"

\* URLs that more than one classifier matches, and a language variant
BlogP2 == "https://example.test/blog/?page=2"
BlogEn == "https://example.test/en/blog/b"
LangEn == "https://example.test/en/about"

RobotsTxt == "https://example.test/robots.txt"
SmMain   == "https://example.test/sitemap.xml"
SmIndex  == "https://example.test/sitemap_index.xml"
SmPlural == "https://example.test/sitemaps.xml"
SmDir    == "https://example.test/sitemap/sitemap.xml"
SmNews   == "https://example.test/news-sitemap.xml"
SmRobots == "https://example.test/robots-sitemap.xml"
SmDeep   == "https://example.test/deep-sitemap.xml"
SmLeaf   == "https://example.test/leaf-sitemap.xml"
SmGone   == "https://example.test/gone-sitemap.xml"

\* new URL(url).hostname.toLowerCase(), as the sequence of its labels
Hostname(url) ==
  CASE url = Blog -> <<"blog", "example", "test">>
    [] url = Ext  -> <<"other", "test">>
    [] OTHER      -> <<"example", "test">>

\* the start URL every request of the model names, and its base domain
StartUrl == Root
BaseDomain == Hostname(StartUrl)

\* host.endsWith("." + base): base is a proper suffix of the label sequence
EndsWithDot(host, base) ==
  /\ Len(host) > Len(base)
  /\ SubSeq(host, Len(host) - Len(base) + 1, Len(host)) = base

\* url.endsWith(".xml")
EndsWithXml(url) == url \in {Feed, SmMain, SmIndex, SmPlural, SmDir, SmNews, SmRobots,
                                SmDeep, SmLeaf, SmGone}

\* the classifier regexes (comprehensive-crawler.ts:556-606) evaluated on the
\* strings above: "/blog/" is a high-value pattern, the URLs with ?page=2
\* match /page=\d+/, those with /en/ match /\/[a-z]{2}\//
isHighValueUrl(url) == url \in {PB, BlogP2, BlogEn}
isLanguageVariant(url) == url \in {BlogEn, LangEn}
isPaginationUrl(url) == url \in {List2, HomeP2, PAP2, RootP2, BlogP2}

\* What the origin server answers to a page fetch.
\*   kind "html": an HTML page with its <a href> values in document order
\*   (absolute but for RelPage2, each anchor closed by </a>), the http(s) strings of its JSON-LD
\*   blocks, and its hrefs containing rss, atom or feed;
\*   "redirect": a 3xx that fetch follows to final;
\*   "nonhtml": 200 with a content type other than text/html, the anchors are
\*   what its body holds between <a href> tags; "error": 404
NoPage == [kind |-> "error", final |-> "", anchors |-> <<>>, jsonld |-> <<>>, feeds |-> <<>>]
Html(anchors, jsonld, feeds) ==
  [kind |-> "html", final |-> "", anchors |-> anchors, jsonld |-> jsonld, feeds |-> feeds]
Redirect(to) == [NoPage EXCEPT !.kind = "redirect", !.final = to]

Site(url) ==
  CASE url = Root  -> Html(<<PA, Blog, PB, Ext>>, <<Ext, Home>>, <<>>)
    [] url = PA    -> Redirect(Home)
    [] url = Home  -> Html(<<Ext, Root, Ext, RelPage2>>, <<>>, <<Feed>>)
    [] url = Blog  -> Html(<<Root, List2, Ext>>, <<>>, <<>>)
    [] url = List2 -> Html(<<Ext>>, <<PA>>, <<>>)
    [] url = Feed  -> [NoPage EXCEPT !.kind = "nonhtml", !.anchors = <<Ext, PB>>]
    [] OTHER       -> NoPage

\* the <loc> entries of the sitemap documents the server has; a document
\* that is not listed answers 404
SitemapDocs ==
  (SmMain :> <<SmNews, Ext>>) @@ (SmNews :> <<Home>>) @@ (SmRobots :> <<Ext, Root>>)
  @@ (SmIndex :> <<SmGone, SmDeep, SmNews>>) @@ (SmDeep :> <<SmLeaf>>)
  @@ (SmLeaf :> <<Root, Ext>>)
\* the Sitemap: lines of /robots.txt
RobotsSitemaps == <<SmRobots>>

\* new URL(href, base).toString(): an absolute href is itself; the relative
\* href stands on /home only, which is fetched as /home or through /a
Resolve(href, base) ==
  IF href # RelPage2 THEN href
  ELSE CASE base = Home -> HomeP2
         [] base = PA   -> PAP2
         [] OTHER       -> RootP2

\* ----------------------------------------------------------------- helpers
Range(s) == {s[i] : i \in 1..Len(s)}
Contains(s, x) == \E i \in 1..Len(s) : s[i] = x
\* position of x in the duplicate-free sequence s (0 when absent)
IndexOf(s, x) == IF Contains(s, x) THEN CHOOSE i \in 1..Len(s) : s[i] = x ELSE 0

\* --------------------------------------------------------------- the state
VARIABLES
  config,          \* CrawlConfig of the running crawler, plus the request's resume flag and handler
  discoveredUrls,  \* Set<string>; a JS Set keeps insertion order, so a duplicate-free sequence
  crawledUrls,     \* Set<string>
  urlQueue,        \* DiscoveredUrl[]
  allLinks,        \* external-link records
  sitemapCache,    \* Map<string, string[]>
  robotsCache,     \* Map<string, any>: the domains whose robots.txt text is cached
  pagesCrawled,    \* local counter of performComprehensiveCrawl
  crawlErrors,
  cpc,             \* where the controller (handler + crawlWebsite) stands
  wpc,             \* where each worker stands
  wcur,            \* the entry a worker popped and is fetching
  skippedDeep,     \* history: URLs popped and skipped because depth > maxDepth, this crawl
  crawl_states,    \* table crawl_states: the stored checkpoint of the base domain, or NoState
  domains,         \* table domains: the crawl records, rows in id order
  outgoing_links,  \* table outgoing_links: rows in insertion order
  outgoing_domains,\* table outgoing_domains: rows in insertion order
  persist,         \* where each request stands that persists its result statement by statement
  sm,              \* sitemap discovery followed call by call: documents, pending calls, fetches
  http,            \* the last request to the start endpoint and its response
  ncrawl           \* number of start requests handled so far (the clock of NOW())

memVars == <<discoveredUrls, crawledUrls, urlQueue, allLinks, sitemapCache, robotsCache,
             pagesCrawled, crawlErrors>>
workerVars == <<wpc, wcur, skippedDeep>>
linkVars == <<outgoing_links, outgoing_domains, persist>>
dbVars == <<crawl_states, domains, linkVars>>
vars == <<config, memVars, workerVars, dbVars, cpc, sm, http, ncrawl>>

Workers == 1..MaxConcurrency
NoEntry == [url |-> "", depth |-> 0, source |-> "", type |-> "", priority |-> 0]
NoState == [saved |-> FALSE]
\* no request yet; status 0 is a response that has not been sent
NoRequest == [url |-> "", status |-> 0]
\* requests that persist their results at the same time, and a request that
\* has not got its crawl result yet
Requests == 1..MaxRequests
NoPersist == [pc |-> "none", links |-> <<>>, pages |-> 0, domainId |-> 0, k |-> 0, status |-> 0]
\* no sitemap discovery is followed call by call
\* no call of retryFetch is followed attempt by attempt
\* the module state of lib/db: sm.pg.client is the module variable client
\* (0 is null, n the n-th Client made), status the state of each Client made,
\* callers the calls of getDbClient in progress and what the last call of
\* each caller handed out, closing the Client closeDbClient is ending
NoCaller == [pc |-> "idle", mine |-> 0, out |-> "none", got |-> 0, gotStatus |-> "none"]
NoPg == [build |-> "none", client |-> 0, status |-> <<>>, closing |-> 0,
         callers |-> [c \in 1..MaxConcurrency |-> NoCaller]]
NoRetry == [pc |-> "none", url |-> "", i |-> 0, outcomes |-> <<>>, waits |-> <<>>]
\* sm.down are the robots and sitemap URLs whose fetch fails for the crawl at hand
NoDiscovery == [docs |-> <<>>, todo |-> <<>>, stack |-> <<>>, outer |-> FALSE, fetched |-> {},
                refetched |-> {}, rf |-> NoRetry, down |-> {}, pg |-> NoPg]
NoConfig == [maxPages |-> 0, maxDepth |-> 0, concurrency |-> 0, includeSubdomains |-> FALSE,
             followSitemaps |-> FALSE, respectRobots |-> FALSE, includeLanguageVariants |-> FALSE,
             followPagination |-> FALSE, resume |-> FALSE, handler |-> "none", domainId |-> 0]

\* ------------------------------------------------- scope predicate, frontier
\* shouldCrawlUrl (comprehensive-crawler.ts:353-367)
shouldCrawlUrl(cfg, url, baseDomain) ==
  LET urlDomain == Hostname(url) IN
  IF cfg.includeSubdomains
    THEN urlDomain = baseDomain \/ EndsWithDot(urlDomain, baseDomain)
    ELSE urlDomain = baseDomain

\* a frontier that is never sorted: entries stay in the order they were pushed
SortByPriorityOmitted(s) == s

\* a sort that is not stable: an entry goes in front of the entries of its priority
RECURSIVE SortByPriorityUnstable(_)
SortByPriorityUnstable(s) ==
  IF s = <<>> THEN <<>>
  ELSE LET rest == SortByPriorityUnstable(SubSeq(s, 1, Len(s) - 1))
           e == s[Len(s)]
           k == Cardinality({i \in 1..Len(rest) : rest[i].priority > e.priority})
       IN SubSeq(rest, 1, k) \o <<e>> \o SubSeq(rest, k + 1, Len(rest))

\* Array.prototype.sort((a, b) => b.priority - a.priority): a stable sort, descending
RECURSIVE SortByPriority(_)
SortByPriority(s) ==
  IF s = <<>> THEN <<>>
  ELSE LET rest == SortByPriority(SubSeq(s, 1, Len(s) - 1))
           e == s[Len(s)]
           k == Cardinality({i \in 1..Len(rest) : rest[i].priority >= e.priority})
       IN SubSeq(rest, 1, k) \o <<e>> \o SubSeq(rest, k + 1, Len(rest))

\* an admission that does not look the URL up in discovered
addUrlToQueueUnchecked(cfg, fr, url, depth, source, type, priority) ==
  IF Len(fr.discovered) >= cfg.maxPages THEN fr
  ELSE [discovered |-> IF Contains(fr.discovered, url) THEN fr.discovered
                       ELSE Append(fr.discovered, url),
        queue |-> SortByPriority(Append(fr.queue,
                    [url |-> url, depth |-> depth, source |-> source, type |-> type,
                     priority |-> priority]))]

\* an admission that replaces the waiting entry of a known URL when the URL
\* is found again with a higher priority
addUrlToQueueUpgrades(cfg, fr, url, depth, source, type, priority) ==
  LET e == [url |-> url, depth |-> depth, source |-> source, type |-> type,
            priority |-> priority]
  IN IF Len(fr.discovered) >= cfg.maxPages THEN fr
     ELSE IF Contains(fr.discovered, url)
       THEN [fr EXCEPT !.queue = SortByPriority(
               [k \in 1..Len(fr.queue) |->
                  IF fr.queue[k].url = url /\ fr.queue[k].priority < priority
                    THEN e ELSE fr.queue[k]])]
     ELSE [discovered |-> Append(fr.discovered, url),
           queue |-> SortByPriority(Append(fr.queue, e))]

\* addUrlToQueue (comprehensive-crawler.ts:197-212) on fr = [discovered, queue]
addUrlToQueue(cfg, fr, url, depth, source, type, priority) ==
  IF Len(fr.discovered) >= cfg.maxPages THEN fr
  ELSE IF Contains(fr.discovered, url) THEN fr
  ELSE [discovered |-> Append(fr.discovered, url),
        queue |-> SortByPriority(Append(fr.queue,
                    [url |-> url, depth |-> depth, source |-> source, type |-> type,
                     priority |-> priority]))]

\* ------------------------------------------------------- sitemap discovery
\* parseSitemap (comprehensive-crawler.ts:275-315): [ok, urls, cache]; ok = FALSE
\* is the re-thrown fetch error.  dsize is discoveredUrls.size, which does
\* not change while a sitemap is parsed.
\* retryFetch(sitemapUrl) resolves (line 282): the document exists and the
\* server answers
Served(sitemapUrl) == sitemapUrl \in DOMAIN SitemapDocs /\ sitemapUrl \notin sm.down

RECURSIVE parseSitemap(_, _, _, _)
RECURSIVE parseLocs(_, _, _, _, _)
parseSitemap(cfg, sitemapUrl, cache, dsize) ==
  IF sitemapUrl \in DOMAIN cache
    THEN [ok |-> TRUE, urls |-> cache[sitemapUrl], cache |-> cache]
  ELSE IF ~Served(sitemapUrl)
    THEN [ok |-> FALSE, urls |-> <<>>, cache |-> cache]
  ELSE LET r == parseLocs(cfg, SitemapDocs[sitemapUrl], cache, dsize, <<>>)
       IN [ok |-> TRUE, urls |-> r.urls, cache |-> (sitemapUrl :> r.urls) @@ r.cache]

\* the loop over the <loc> matches (lines 291-307)
parseLocs(cfg, locs, cache, dsize, urls) ==
  IF locs = <<>> THEN [urls |-> urls, cache |-> cache]
  ELSE LET url == Head(locs) IN
       IF EndsWithXml(url)
         THEN LET n == parseSitemap(cfg, url, cache, dsize)
              IN parseLocs(cfg, Tail(locs), n.cache, dsize,
                           IF n.ok THEN urls \o n.urls ELSE urls)
       ELSE IF dsize < cfg.maxPages
         THEN parseLocs(cfg, Tail(locs), cache, dsize, Append(urls, url))
       ELSE parseLocs(cfg, Tail(locs), cache, dsize, urls)

\* urls.forEach: admit the in-scope ones at depth 1, priority 8 (lines 263-267, 335-339)
RECURSIVE admitSitemapUrls(_, _, _, _, _)
admitSitemapUrls(cfg, fr, urls, source, domain) ==
  IF urls = <<>> THEN fr
  ELSE admitSitemapUrls(cfg,
         IF shouldCrawlUrl(cfg, Head(urls), domain)
           THEN addUrlToQueue(cfg, fr, Head(urls), 1, source, "sitemap", 8)
           ELSE fr,
         Tail(urls), source, domain)

\* a loop over sitemap URLs that the first failing sitemap ends
RECURSIVE discoverFromListEndedByFailure(_, _, _, _, _)
discoverFromListEndedByFailure(cfg, st, sitemapUrls, source, domain) ==
  IF sitemapUrls = <<>> THEN st
  ELSE LET p == parseSitemap(cfg, Head(sitemapUrls), st.cache, Len(st.discovered))
           fr == admitSitemapUrls(cfg, [discovered |-> st.discovered, queue |-> st.queue],
                                  IF p.ok THEN p.urls ELSE <<>>, source, domain)
       IN IF ~p.ok THEN st
          ELSE discoverFromListEndedByFailure(cfg, [discovered |-> fr.discovered,
                                                    queue |-> fr.queue, cache |-> p.cache],
                                              Tail(sitemapUrls), source, domain)

\* the loop over sitemap URLs of discoverFromSitemaps (lines 260-272) and of
\* discoverFromRobots (lines 331-345) on st = [discovered, queue, cache]
RECURSIVE discoverFromList(_, _, _, _, _)
discoverFromList(cfg, st, sitemapUrls, source, domain) ==
  IF sitemapUrls = <<>> THEN st
  ELSE LET p == parseSitemap(cfg, Head(sitemapUrls), st.cache, Len(st.discovered))
           fr == admitSitemapUrls(cfg, [discovered |-> st.discovered, queue |-> st.queue],
                                  IF p.ok THEN p.urls ELSE <<>>, source, domain)
       IN discoverFromList(cfg, [discovered |-> fr.discovered, queue |-> fr.queue,
                                 cache |-> p.cache],
                           Tail(sitemapUrls), source, domain)

\* discoverFromSitemaps (comprehensive-crawler.ts:252-273)
discoverFromSitemaps(cfg, st, domain) ==
  discoverFromList(cfg, st, <<SmMain, SmIndex, SmPlural, SmDir>>, "sitemap", domain)

\* discoverFromRobots (comprehensive-crawler.ts:317-351); when the fetch of
\* /robots.txt fails the outer catch ends it (lines 348-350)
discoverFromRobots(cfg, st, domain) ==
  IF RobotsTxt \in sm.down THEN st
  ELSE discoverFromList(cfg, st, RobotsSitemaps, "robots", domain)
\* --------------------------------------------------------- page extraction
\* a fetch that reports the requested URL, not response.url, as the final URL
FetchPageRequestedUrl(url) ==
  LET first == Site(url)
      page == IF first.kind = "redirect" THEN Site(first.final) ELSE first
  IN [ok |-> page.kind \in {"html", "nonhtml"}, finalUrl |-> url, page |-> page]

\* a fetch that takes every response for a success, whatever its status
FetchPageIgnoringStatus(url) ==
  LET first == Site(url)
      finalUrl == IF first.kind = "redirect" THEN first.final ELSE url
      page == IF first.kind = "redirect" THEN Site(first.final) ELSE first
  IN [ok |-> TRUE, finalUrl |-> finalUrl, page |-> page]

\* fetch(url, {redirect: "follow"}) as crawlPage sees it (lines 455-486):
\* ok = FALSE is the thrown "HTTP 4xx/5xx" error, finalUrl is response.url
FetchPage(url) ==
  LET first == Site(url)
      finalUrl == IF first.kind = "redirect" THEN first.final ELSE url
      page == IF first.kind = "redirect" THEN Site(first.final) ELSE first
  IN [ok |-> page.kind \in {"html", "nonhtml"}, finalUrl |-> finalUrl, page |-> page]

\* a link extractor that only compares the target host with the source host
RECURSIVE extractExternalLinksOtherHost(_, _, _, _, _)
extractExternalLinksOtherHost(anchors, baseUrl, sourceDomain, seenUrls, links) ==
  IF anchors = <<>> THEN links
  ELSE LET absoluteUrl == Resolve(Head(anchors), baseUrl)
           targetDomain == Hostname(absoluteUrl)
       IN IF targetDomain # sourceDomain /\ absoluteUrl \notin seenUrls
            THEN extractExternalLinksOtherHost(Tail(anchors), baseUrl, sourceDomain,
                   seenUrls \cup {absoluteUrl},
                   Append(links, [source_url |-> baseUrl, target_url |-> absoluteUrl,
                                  target_domain |-> targetDomain]))
            ELSE extractExternalLinksOtherHost(Tail(anchors), baseUrl, sourceDomain,
                                               seenUrls, links)

\* extractExternalLinks (comprehensive-crawler.ts:663-722): the loop over the anchors
RECURSIVE extractExternalLinks(_, _, _, _, _)
extractExternalLinks(anchors, baseUrl, sourceDomain, seenUrls, links) ==
  IF anchors = <<>> THEN links
  ELSE LET absoluteUrl == Resolve(Head(anchors), baseUrl)
           targetDomain == Hostname(absoluteUrl)
       IN IF /\ targetDomain # sourceDomain
             /\ ~EndsWithDot(targetDomain, sourceDomain)
             /\ absoluteUrl \notin seenUrls
            THEN extractExternalLinks(Tail(anchors), baseUrl, sourceDomain,
                   seenUrls \cup {absoluteUrl},
                   Append(links, [source_url |-> baseUrl, target_url |-> absoluteUrl,
                                  target_domain |-> targetDomain]))
            ELSE extractExternalLinks(Tail(anchors), baseUrl, sourceDomain, seenUrls, links)

\* a crawlPage that reads every body as HTML, whatever its content type
crawlPageAnyContentType(url, baseDomain) ==
  LET r == FetchPage(url) IN
  [links |-> extractExternalLinks(r.page.anchors, r.finalUrl, baseDomain, {}, <<>>),
   html |-> r.page, finalUrl |-> r.finalUrl]

\* crawlPage (comprehensive-crawler.ts:451-494), for a fetch that did not throw
crawlPage(url, baseDomain) ==
  LET r == FetchPage(url) IN
  IF r.page.kind = "nonhtml"
    THEN [links |-> <<>>, html |-> NoPage, finalUrl |-> r.finalUrl]
    ELSE [links |-> extractExternalLinks(r.page.anchors, r.finalUrl, baseDomain, {}, <<>>),
          html |-> r.page, finalUrl |-> r.finalUrl]

\* a classifier whose high-value priority is not overwritten
anchorPriorityHighValueFirst(cfg, url) ==
  IF isHighValueUrl(url) THEN 7
  ELSE IF cfg.followPagination /\ isPaginationUrl(url) THEN 6
  ELSE IF cfg.includeLanguageVariants /\ isLanguageVariant(url) THEN 6
  ELSE 5

\* type and priority of an in-scope anchor (lines 525-543): the priority as
\* the three assignments leave it, the later ones overwrite
anchorPriority(cfg, url) ==
  IF cfg.followPagination /\ isPaginationUrl(url) THEN 6
  ELSE IF cfg.includeLanguageVariants /\ isLanguageVariant(url) THEN 6
  ELSE IF isHighValueUrl(url) THEN 7
  ELSE 5
anchorType(cfg, url) ==
  IF cfg.followPagination /\ isPaginationUrl(url) THEN "pagination" ELSE "internal"

\* the anchor loop of discoverUrlsFromPage (lines 503-550)
RECURSIVE discoverAnchors(_, _, _, _, _, _, _)
discoverAnchors(cfg, fr, anchors, currentUrl, baseDomain, currentDepth, discoveredInThisPage) ==
  IF anchors = <<>> THEN fr
  ELSE LET absoluteUrl == Resolve(Head(anchors), currentUrl) IN
       IF shouldCrawlUrl(cfg, absoluteUrl, baseDomain) /\ absoluteUrl \notin discoveredInThisPage
         THEN discoverAnchors(cfg,
                addUrlToQueue(cfg, fr, absoluteUrl, currentDepth + 1, currentUrl,
                              anchorType(cfg, absoluteUrl), anchorPriority(cfg, absoluteUrl)),
                Tail(anchors), currentUrl, baseDomain, currentDepth,
                discoveredInThisPage \cup {absoluteUrl})
         ELSE discoverAnchors(cfg, fr, Tail(anchors), currentUrl, baseDomain, currentDepth,
                              discoveredInThisPage)

\* extractUrlsFromJsonLd (lines 640-661) and the feed loop (lines 624-637): admit
\* the in-scope URLs of a list as type "page" with the given priority
RECURSIVE admitPages(_, _, _, _, _, _, _)
admitPages(cfg, fr, urls, currentUrl, baseDomain, currentDepth, priority) ==
  IF urls = <<>> THEN fr
  ELSE admitPages(cfg,
         IF shouldCrawlUrl(cfg, Head(urls), baseDomain)
           THEN addUrlToQueue(cfg, fr, Head(urls), currentDepth + 1, currentUrl, "page", priority)
           ELSE fr,
         Tail(urls), currentUrl, baseDomain, currentDepth, priority)

\* discoverSpecialPatterns (comprehensive-crawler.ts:608-638)
discoverSpecialPatterns(cfg, fr, html, currentUrl, baseDomain, currentDepth) ==
  admitPages(cfg,
    admitPages(cfg, fr, html.jsonld, currentUrl, baseDomain, currentDepth, 5),
    html.feeds, currentUrl, baseDomain, currentDepth, 6)

\* discoverUrlsFromPage (comprehensive-crawler.ts:496-554)
discoverUrlsFromPage(cfg, fr, currentUrl, html, baseDomain, currentDepth) ==
  discoverSpecialPatterns(cfg,
    discoverAnchors(cfg, fr, html.anchors, currentUrl, baseDomain, currentDepth, {}),
    html, currentUrl, baseDomain, currentDepth)

\* ------------------------------------------------------------ worker loop
\* a worker loop that fetches whatever it pops, however deep
RECURSIVE popNextAnyDepth(_, _, _, _)
popNextAnyDepth(cfg, queue, crawled, pages) ==
  IF pages >= cfg.maxPages
    THEN [pc |-> "done", queue |-> queue, cur |-> NoEntry, deep |-> {}]
  ELSE IF queue = <<>>
    THEN [pc |-> "waiting", queue |-> queue, cur |-> NoEntry, deep |-> {}]
  ELSE IF Head(queue).url \in crawled
    THEN popNextAnyDepth(cfg, Tail(queue), crawled, pages)
  ELSE [pc |-> "fetching", queue |-> Tail(queue), cur |-> Head(queue), deep |-> {}]

\* One synchronous run of the worker loop (comprehensive-crawler.ts:380-413)
\* from the loop guard to its next await: entries that are already crawled or
\* too deep are shifted and skipped, then the worker awaits a fetch
\* ("fetching"), awaits the empty-queue timer ("waiting") or leaves the loop.
RECURSIVE popNext(_, _, _, _)
popNext(cfg, queue, crawled, pages) ==
  IF pages >= cfg.maxPages
    THEN [pc |-> "done", queue |-> queue, cur |-> NoEntry, deep |-> {}]
  ELSE IF queue = <<>>
    THEN [pc |-> "waiting", queue |-> queue, cur |-> NoEntry, deep |-> {}]
  ELSE LET nextUrlData == Head(queue) IN
       IF nextUrlData.url \in crawled
         THEN popNext(cfg, Tail(queue), crawled, pages)
       ELSE IF nextUrlData.depth > cfg.maxDepth
         THEN LET r == popNext(cfg, Tail(queue), crawled, pages)
              IN [r EXCEPT !.deep = @ \cup {nextUrlData.url}]
       ELSE [pc |-> "fetching", queue |-> Tail(queue), cur |-> nextUrlData, deep |-> {}]

\* the pool start (lines 437-440): worker(i) runs to its first await before
\* worker(i+1) is created
RECURSIVE startWorkers(_, _, _, _)
startWorkers(cfg, queue, crawled, w) ==
  IF w > cfg.concurrency
    THEN [queue |-> queue, pc |-> [x \in Workers |-> "off"],
          cur |-> [x \in Workers |-> NoEntry], deep |-> {}]
  ELSE LET me == popNext(cfg, queue, crawled, 0)
           rest == startWorkers(cfg, me.queue, crawled, w + 1)
       IN [queue |-> rest.queue, pc |-> [rest.pc EXCEPT ![w] = me.pc],
           cur |-> [rest.cur EXCEPT ![w] = me.cur], deep |-> me.deep \cup rest.deep]
\* -------------------------------------------------------------- checkpoint
\* the CrawlState blob saveState serializes (comprehensive-crawler.ts:135-143)
\* Sets and Maps are stored as arrays (Array.from, lines 136-141), the arrays and
\* the records of strings and numbers pass JSON.stringify and jsonb unchanged.
\* Array.from(set): discoveredUrls is kept in insertion order and is its own
\* array; a set without order in the model is listed in one fixed order
RECURSIVE ArrayFrom(_)
ArrayFrom(set) ==
  IF set = {} THEN <<>>
  ELSE LET x == CHOOSE y \in set : TRUE IN <<x>> \o ArrayFrom(set \ {x})

\* Array.from(map.entries()): the [key, value] pairs
Entries(map) ==
  LET keys == ArrayFrom(DOMAIN map) IN [i \in 1..Len(keys) |-> <<keys[i], map[keys[i]]>>]

Snapshot(discovered, crawled, queue, links, smCache, rbCache) ==
  [saved |-> TRUE, discoveredUrls |-> discovered, crawledUrls |-> ArrayFrom(crawled),
   urlQueue |-> queue, allLinks |-> links, sitemapCache |-> Entries(smCache),
   robotsCache |-> ArrayFrom(rbCache)]

\* saveState (comprehensive-crawler.ts:134-161): the upsert, or the logged failure
saveState(state, dbOk) == IF dbOk THEN state ELSE crawl_states

\* a saveState that lets the error of a failed query out to its caller
saveStateRethrows(dbOk) == ~dbOk

\* whether saveState throws: getDbClient, JSON.stringify and the query are all
\* inside its try block (lines 145-156), the catch logs and returns (157-159)
saveStateThrows(dbOk) == FALSE

EmptyCache == [u \in {} |-> <<>>]

\* new Set(array) for a Set kept in insertion order: first occurrences
RECURSIVE NewOrderedSet(_)
NewOrderedSet(array) ==
  IF array = <<>> THEN <<>>
  ELSE LET front == NewOrderedSet(SubSeq(array, 1, Len(array) - 1))
           last == array[Len(array)]
       IN IF Contains(front, last) THEN front ELSE Append(front, last)

\* new Map(entries): a later pair of a key replaces an earlier one
RECURSIVE NewMap(_)
NewMap(entries) ==
  IF entries = <<>> THEN EmptyCache
  ELSE LET last == entries[Len(entries)]
       IN (last[1] :> last[2]) @@ NewMap(SubSeq(entries, 1, Len(entries) - 1))

\* a loader that builds the crawled set from the array of discovered URLs
loadStateCrawledFromDiscovered(state) ==
  [discovered |-> NewOrderedSet(state.discoveredUrls),
   crawled |-> Range(state.discoveredUrls),
   queue |-> SortByPriority(state.urlQueue),
   links |-> state.allLinks,
   rbCache |-> Range(state.robotsCache),
   smCache |-> NewMap(state.sitemapCache)]

\* loadState (comprehensive-crawler.ts:178-187) on the stored CrawlState: the
\* members it assigns, the queue sorted again
loadState(state) ==
  [discovered |-> NewOrderedSet(state.discoveredUrls),
   crawled |-> Range(state.crawledUrls),
   queue |-> SortByPriority(state.urlQueue),
   links |-> state.allLinks,
   rbCache |-> Range(state.robotsCache),
   smCache |-> NewMap(state.sitemapCache)]

\* ------------------------------------------------------------------- Init
EmptyMemory ==
  /\ discoveredUrls = <<>>
  /\ crawledUrls = {}
  /\ urlQueue = <<>>
  /\ allLinks = <<>>
  /\ sitemapCache = EmptyCache
  /\ robotsCache = {}
  /\ pagesCrawled = 0
  /\ crawlErrors = 0

Init ==
  /\ config = NoConfig
  /\ EmptyMemory
  /\ cpc = "idle"
  /\ wpc = [w \in Workers |-> "off"]
  /\ wcur = [w \in Workers |-> NoEntry]
  /\ skippedDeep = {}
  /\ crawl_states = NoState
  /\ domains = <<>>
  /\ outgoing_links = <<>>
  /\ outgoing_domains = <<>>
  /\ persist = [r \in Requests |-> NoPersist]
  /\ sm = NoDiscovery
  /\ http = NoRequest
  /\ ncrawl = 0

\* the fields of a newly constructed crawler (comprehensive-crawler.ts:36-42)
NewMemory ==
  /\ discoveredUrls' = <<>>
  /\ crawledUrls' = {}
  /\ urlQueue' = <<>>
  /\ allLinks' = <<>>
  /\ sitemapCache' = EmptyCache
  /\ robotsCache' = {}
  /\ pagesCrawled' = 0
  /\ crawlErrors' = 0
  /\ sm' = NoDiscovery

\* the process holds no crawler any more
ResetProcess ==
  /\ config' = NoConfig
  /\ NewMemory
  /\ wpc' = [w \in Workers |-> "off"]
  /\ wcur' = [w \in Workers |-> NoEntry]
  /\ skippedDeep' = {}

\* ------------------------------------------------------------ the handlers
\* new ComprehensiveCrawler({...}) as both handlers build it
\* (route.ts:52-63, part_006:308-317) over the constructor's defaults (lines 44-58)
NewConfig(handler, maxPages, depth, concurrency, includeSubdomains, followSitemaps, resume, id) ==
  [maxPages |-> maxPages, maxDepth |-> depth, concurrency |-> concurrency,
   includeSubdomains |-> includeSubdomains, followSitemaps |-> followSitemaps,
   respectRobots |-> TRUE, includeLanguageVariants |-> TRUE, followPagination |-> TRUE,
   resume |-> resume, handler |-> handler, domainId |-> id]

\* crawlWebsite up to its first await (comprehensive-crawler.ts:74-91)
BeginCrawl(cfg) ==
  /\ config' = cfg
  /\ NewMemory
  /\ wpc' = [w \in Workers |-> "off"]
  /\ wcur' = [w \in Workers |-> NoEntry]
  /\ skippedDeep' = {}
  /\ cpc' = IF cfg.resume THEN "loading" ELSE "seeding"
  /\ ncrawl' = ncrawl + 1

\* POST /api/crawl-website, synchronous handler (route.ts:13-66): the crawl
\* runs inside the request
PostSync(maxPages, depth, concurrency, includeSubdomains, followSitemaps, resume) ==
  /\ cpc = "idle"
  /\ ncrawl < MaxCrawls
  /\ BeginCrawl(NewConfig("sync", maxPages, depth, concurrency, includeSubdomains,
                          followSitemaps, resume, 0))
  /\ http' = [url |-> StartUrl, status |-> 0]
  /\ UNCHANGED dbVars

\* request bodies whose url is not the start URL of the modelled site: no
\* url, a string that is no URL, a URL of another scheme, the site over http
NoUrl   == ""
BadUrl  == "not a url"
FtpUrl  == "ftp://example.test/"
HttpUrl == "http://example.test/"

\* new URL(url) (route.ts:34): ok = FALSE is the TypeError it throws
ParseUrl(url) ==
  CASE url = BadUrl  -> [ok |-> FALSE, protocol |-> ""]
    [] url = FtpUrl  -> [ok |-> TRUE, protocol |-> "ftp:"]
    [] url = HttpUrl -> [ok |-> TRUE, protocol |-> "http:"]
    [] OTHER         -> [ok |-> TRUE, protocol |-> "https:"]

\* a validation that looks at the value and at its syntax only
ValidateUrlAnyScheme(url) ==
  IF url = NoUrl THEN "URL is required"
  ELSE IF ~ParseUrl(url).ok THEN "Invalid URL format"
  ELSE "ok"

\* the validation both handlers start with (route.ts:27-42, part_006:264-280):
\* the error of the 400 response, or "ok"
ValidateUrl(url) ==
  IF url = NoUrl THEN "URL is required"
  ELSE IF ~ParseUrl(url).ok THEN "Invalid URL format"
  ELSE IF ParseUrl(url).protocol \notin {"http:", "https:"}
    THEN "Only HTTP and HTTPS URLs are supported"
  ELSE "ok"

\* the 400 response to a request that fails validation: nothing else happens
Reject(url) ==
  /\ cpc = "idle"
  /\ ncrawl < MaxCrawls
  /\ ValidateUrl(url) # "ok"
  /\ http' = [url |-> url, status |-> 400]
  /\ ncrawl' = ncrawl + 1
  /\ UNCHANGED <<config, sm, memVars, workerVars, dbVars, cpc>>

\* domains.domain_name is UNIQUE (part_003:3-13): does the INSERT succeed
InsertAllowed(table, domainName) == \A i \in 1..Len(table) : table[i].domain_name # domainName

\* POST /api/crawl-website, background handler (part_006:247-355): the record
\* is inserted as 'processing', the crawl is detached with setImmediate
PostBackground(maxPages, depth, concurrency, includeSubdomains, followSitemaps, resume) ==
  /\ cpc = "idle"
  /\ ncrawl < MaxCrawls
  /\ IF InsertAllowed(domains, BaseDomain)
       THEN /\ domains' = Append(domains,
                 [id |-> Len(domains) + 1, domain_name |-> BaseDomain, status |-> "processing",
                  total_pages_crawled |-> 0, total_external_links |-> 0,
                  crawl_depth |-> depth, updated_at |-> ncrawl + 1])
            /\ BeginCrawl(NewConfig("background", maxPages, depth, concurrency,
                                    includeSubdomains, followSitemaps, resume, Len(domains) + 1))
            /\ http' = [url |-> StartUrl, status |-> 200]
       ELSE \* the INSERT throws, the handler answers 500 (lines 299-305, 347-354)
            /\ ncrawl' = ncrawl + 1
            /\ http' = [url |-> StartUrl, status |-> 500]
            /\ UNCHANGED <<config, sm, memVars, workerVars, cpc, domains>>
  /\ UNCHANGED <<crawl_states, linkVars>>

\* ------------------------------------------------------------- crawlWebsite
\* performComprehensiveCrawl up to Promise.all (comprehensive-crawler.ts:369-443)
\* over the frontier the controller has built: the pool is started
LaunchPool(discovered, queue, crawled, links, smCache, rbCache) ==
  LET pool == startWorkers(config, queue, crawled, 1) IN
  /\ discoveredUrls' = discovered
  /\ crawledUrls' = crawled
  /\ urlQueue' = pool.queue
  /\ allLinks' = links
  /\ sitemapCache' = smCache
  /\ robotsCache' = rbCache
  /\ pagesCrawled' = 0
  /\ crawlErrors' = 0
  /\ wpc' = pool.pc
  /\ wcur' = pool.cur
  /\ skippedDeep' = pool.deep
  /\ cpc' = "crawling"

\* the seeding branch of crawlWebsite (comprehensive-crawler.ts:88-101): start
\* URL, sitemaps, robots; then the pool is launched
SeedAndLaunch(discovered, queue, crawled, links, smCache, rbCache) ==
  LET fr0 == addUrlToQueue(config, [discovered |-> discovered, queue |-> queue],
                           http.url, 0, "start", "page", 10)
      st0 == [discovered |-> fr0.discovered, queue |-> fr0.queue, cache |-> smCache]
      st1 == IF config.followSitemaps THEN discoverFromSitemaps(config, st0, BaseDomain) ELSE st0
      st2 == IF config.respectRobots THEN discoverFromRobots(config, st1, BaseDomain) ELSE st1
  IN LaunchPool(st2.discovered, st2.queue, crawled, links, st2.cache,
                IF config.respectRobots /\ RobotsTxt \notin sm.down
                  THEN rbCache \cup {BaseDomain} ELSE rbCache)

\* a fresh crawl (resume = false): seeding, then the pool
Seed ==
  /\ cpc = "seeding"
  /\ SeedAndLaunch(discoveredUrls, urlQueue, crawledUrls, allLinks, sitemapCache, robotsCache)
  /\ UNCHANGED <<config, sm, dbVars, http, ncrawl>>

\* loadState (comprehensive-crawler.ts:163-195) answers, and crawlWebsite goes
\* on (lines 80-104): with a stored state and a non-empty queue the pool is
\* launched on it, otherwise the crawl is seeded.  dbOk = FALSE: the query threw.
Load(dbOk) ==
  /\ cpc = "loading"
  /\ IF dbOk /\ crawl_states.saved
       THEN LET st == loadState(crawl_states) IN
            IF st.queue # <<>>
              THEN LaunchPool(st.discovered, st.queue, st.crawled, st.links, st.smCache,
                              st.rbCache)
              ELSE SeedAndLaunch(st.discovered, st.queue, st.crawled, st.links, st.smCache,
                                 st.rbCache)
       ELSE SeedAndLaunch(discoveredUrls, urlQueue, crawledUrls, allLinks, sitemapCache,
                          robotsCache)
  /\ UNCHANGED <<config, sm, dbVars, http, ncrawl>>

\* The stored state_data need not be what saveState wrote (line 188: "it
\* might have been modified externally").  A blob is malformed at a member
\* when that member is a value the constructor at its line cannot iterate
\* (a number, an object): new Set(...) or new Map(...) throws a TypeError.
SetAndMapMembers == {"discoveredUrls", "crawledUrls", "robotsCache", "sitemapCache"}
Malformed(state) == IF "malformed" \in DOMAIN state THEN state.malformed ELSE "none"

\* loadState (comprehensive-crawler.ts:163-195), statement by statement, on
\* the members mem of the crawler: the members as it leaves them and the
\* boolean it returns.  The assignments of lines 179-184 run in order, and
\* the catch (lines 191-194) undoes none of them.
loadStateMembers(mem, state, dbOk) ==
  LET full == loadState(state)
      bad == Malformed(state)
      m1 == [mem EXCEPT !.discovered = full.discovered]
      m2 == [m1 EXCEPT !.crawled = full.crawled]
      m4 == [m2 EXCEPT !.queue = state.urlQueue, !.links = full.links]
      m5 == [m4 EXCEPT !.rbCache = full.rbCache]
  IN IF ~dbOk \/ ~state.saved THEN [resumed |-> FALSE, mem |-> mem]
     ELSE CASE bad = "discoveredUrls" -> [resumed |-> FALSE, mem |-> mem]
            [] bad = "crawledUrls"    -> [resumed |-> FALSE, mem |-> m1]
            [] bad = "robotsCache"    -> [resumed |-> FALSE, mem |-> m4]
            [] bad = "sitemapCache"   -> [resumed |-> FALSE, mem |-> m5]
            [] OTHER                  -> [resumed |-> TRUE, mem |-> full]

\* the members of the crawler
Members ==
  [discovered |-> discoveredUrls, crawled |-> crawledUrls, queue |-> urlQueue,
   links |-> allLinks, rbCache |-> robotsCache, smCache |-> sitemapCache]

\* loadState answers on a stored blob of any shape, and crawlWebsite goes on
\* (lines 80-104)
LoadStored(dbOk) ==
  /\ cpc = "loading"
  /\ LET r == loadStateMembers(Members, crawl_states, dbOk)
         st == r.mem
     IN IF r.resumed /\ st.queue # <<>>
          THEN LaunchPool(st.discovered, st.queue, st.crawled, st.links, st.smCache,
                          st.rbCache)
          ELSE SeedAndLaunch(st.discovered, st.queue, st.crawled, st.links, st.smCache,
                             st.rbCache)
  /\ UNCHANGED <<config, sm, dbVars, http, ncrawl>>

\* the state_data of the stored row is changed outside the crawler, between
\* two crawls: the member is no longer an array
StateDataModified(member) ==
  /\ cpc = "idle"
  /\ crawl_states.saved
  /\ Malformed(crawl_states) = "none"
  /\ crawl_states' = ("malformed" :> member) @@ crawl_states
  /\ UNCHANGED <<config, sm, memVars, workerVars, domains, linkVars, cpc, http, ncrawl>>

\* the worker goes round its loop again (comprehensive-crawler.ts:380-408)
NextIteration(w, queue, crawled, pages) ==
  LET r == popNext(config, queue, crawled, pages) IN
  /\ urlQueue' = r.queue
  /\ wpc' = [wpc EXCEPT ![w] = r.pc]
  /\ wcur' = [wcur EXCEPT ![w] = r.cur]
  /\ skippedDeep' = skippedDeep \cup r.deep

\* the page fetch of worker w answers (comprehensive-crawler.ts:410-431); dbOk
\* is the outcome of the periodic saveState, when one is due
FetchReturn(w, dbOk) ==
  /\ cpc = "crawling"
  /\ wpc[w] = "fetching"
  /\ LET url == wcur[w].url
         depth == wcur[w].depth
     IN IF ~FetchPage(url).ok
          THEN \* catch: count the error, next iteration at once (lines 427-431)
               /\ crawlErrors' = crawlErrors + 1
               /\ NextIteration(w, urlQueue, crawledUrls, pagesCrawled)
               /\ UNCHANGED <<discoveredUrls, crawledUrls, allLinks, sitemapCache, robotsCache,
                              pagesCrawled, crawl_states>>
          ELSE LET pageData == crawlPage(url, BaseDomain)
                   links == allLinks \o pageData.links
                   crawled == crawledUrls \cup {pageData.finalUrl}
                   pages == pagesCrawled + 1
                   fr == discoverUrlsFromPage(config,
                           [discovered |-> discoveredUrls, queue |-> urlQueue],
                           pageData.finalUrl, pageData.html, BaseDomain, depth)
                   saveDue == pages % saveInterval = 0
               IN /\ allLinks' = links
                  /\ crawledUrls' = crawled
                  /\ pagesCrawled' = pages
                  /\ discoveredUrls' = fr.discovered
                  /\ crawl_states' =
                       IF saveDue
                         THEN saveState(Snapshot(fr.discovered, crawled, fr.queue, links,
                                                 sitemapCache, robotsCache), dbOk)
                         ELSE crawl_states
                  /\ IF saveDue /\ saveStateThrows(dbOk)
                       THEN \* an error out of saveState lands in the worker's catch (lines 427-431)
                            /\ crawlErrors' = crawlErrors + 1
                            /\ NextIteration(w, fr.queue, crawled, pages)
                       ELSE /\ urlQueue' = fr.queue
                            /\ wpc' = [wpc EXCEPT ![w] = IF saveDue THEN "saving" ELSE "delay"]
                            /\ UNCHANGED <<crawlErrors, wcur, skippedDeep>>
                  /\ UNCHANGED <<sitemapCache, robotsCache>>
  /\ UNCHANGED <<config, sm, domains, linkVars, cpc, http, ncrawl>>

\* the periodic saveState of worker w has answered (line 422)
SaveReturn(w) ==
  /\ cpc = "crawling"
  /\ wpc[w] = "saving"
  /\ wpc' = [wpc EXCEPT ![w] = "delay"]
  /\ UNCHANGED <<config, sm, memVars, wcur, skippedDeep, dbVars, cpc, http, ncrawl>>

\* the crawlDelay timer of worker w fires (line 426)
DelayReturn(w) ==
  /\ cpc = "crawling"
  /\ wpc[w] = "delay"
  /\ NextIteration(w, urlQueue, crawledUrls, pagesCrawled)
  /\ UNCHANGED <<config, sm, discoveredUrls, crawledUrls, allLinks, sitemapCache, robotsCache,
                 pagesCrawled, crawlErrors, dbVars, cpc, http, ncrawl>>

\* the empty-queue timer of worker w fires (lines 386-394)
WaitReturn(w) ==
  /\ cpc = "crawling"
  /\ wpc[w] = "waiting"
  /\ IF urlQueue = <<>>
       THEN /\ wpc' = [wpc EXCEPT ![w] = "done"]
            /\ UNCHANGED <<urlQueue, wcur, skippedDeep>>
       ELSE NextIteration(w, urlQueue, crawledUrls, pagesCrawled)
  /\ UNCHANGED <<config, sm, discoveredUrls, crawledUrls, allLinks, sitemapCache, robotsCache,
                 pagesCrawled, crawlErrors, dbVars, cpc, http, ncrawl>>

\* Promise.all resolves; the final saveState (comprehensive-crawler.ts:443-449, 107-110)
FinalSave(dbOk) ==
  /\ cpc = "crawling"
  /\ \A w \in Workers : wpc[w] \in {"done", "off"}
  /\ crawl_states' = saveState(Snapshot(discoveredUrls, crawledUrls, urlQueue, allLinks,
                                        sitemapCache, robotsCache), dbOk)
  \* an error out of saveState lands in the catch of crawlWebsite (lines 124-131)
  /\ cpc' = IF saveStateThrows(dbOk) THEN "failed" ELSE "finishing"
  /\ UNCHANGED <<config, sm, memVars, workerVars, domains, linkVars, http, ncrawl>>

\* the domains row the synchronous handler writes after the crawl (route.ts:77-102)
RecordAfterSyncCrawl(table, domainName, pages, nlinks, depth, now) ==
  IF \E i \in 1..Len(table) : table[i].domain_name = domainName
    THEN LET i == CHOOSE i \in 1..Len(table) : table[i].domain_name = domainName
         IN [table EXCEPT ![i].status = "completed", ![i].total_pages_crawled = pages,
                          ![i].total_external_links = nlinks, ![i].updated_at = now]
    ELSE Append(table, [id |-> Len(table) + 1, domain_name |-> domainName,
                        status |-> "completed", total_pages_crawled |-> pages,
                        total_external_links |-> nlinks, crawl_depth |-> depth,
                        updated_at |-> now])

\* the id the handler gets from the SELECT or from RETURNING id (route.ts:80-101)
DomainIdOf(table, domainName) ==
  IF \E i \in 1..Len(table) : table[i].domain_name = domainName
    THEN table[CHOOSE i \in 1..Len(table) : table[i].domain_name = domainName].id
    ELSE Len(table) + 1

\* DELETE FROM <table> WHERE domain_id = id (route.ts:107-108)
RECURSIVE DeleteByDomainId(_, _)
DeleteByDomainId(rows, id) ==
  IF rows = <<>> THEN <<>>
  ELSE IF Head(rows).domain_id = id THEN DeleteByDomainId(Tail(rows), id)
  ELSE <<Head(rows)>> \o DeleteByDomainId(Tail(rows), id)

\* the rows the loop of INSERT INTO outgoing_links adds (route.ts:110-129):
\* one per link of the result, no conflict clause
LinkRows(links, id) ==
  [k \in 1..Len(links) |->
     [domain_id |-> id, source_url |-> links[k].source_url,
      target_url |-> links[k].target_url, target_domain |-> links[k].target_domain]]

\* groupLinksByDomain (route.ts:177-206): one summary per target domain in
\* order of first occurrence, then sorted by link_count, descending
RECURSIVE domainMap(_, _)
domainMap(links, acc) ==
  IF links = <<>> THEN acc
  ELSE LET domain == Head(links).target_domain IN
       IF \E k \in 1..Len(acc) : acc[k].target_domain = domain
         THEN domainMap(Tail(links),
                [k \in 1..Len(acc) |->
                   IF acc[k].target_domain = domain
                     THEN [acc[k] EXCEPT !.link_count = @ + 1] ELSE acc[k]])
         ELSE domainMap(Tail(links), Append(acc, [target_domain |-> domain, link_count |-> 1]))
RECURSIVE SortByLinkCount(_)
SortByLinkCount(s) ==
  IF s = <<>> THEN <<>>
  ELSE LET rest == SortByLinkCount(SubSeq(s, 1, Len(s) - 1))
           e == s[Len(s)]
           k == Cardinality({i \in 1..Len(rest) : rest[i].link_count >= e.link_count})
       IN SubSeq(rest, 1, k) \o <<e>> \o SubSeq(rest, k + 1, Len(rest))
groupLinksByDomain(links) == SortByLinkCount(domainMap(links, <<>>))

\* the upserts into outgoing_domains (route.ts:131-144); the rows of the
\* domain were deleted just before, so no upsert meets a conflict
DomainRows(links, id) ==
  LET domainSummary == groupLinksByDomain(links) IN
  [k \in 1..Len(domainSummary) |->
     [domain_id |-> id, target_domain |-> domainSummary[k].target_domain,
      link_count |-> domainSummary[k].link_count]]

\* crawlWebsite has returned its result to the synchronous handler, which
\* persists it and answers 200 (route.ts:66-165)
FinishSync ==
  /\ cpc = "finishing"
  /\ config.handler = "sync"
  /\ LET domainId == DomainIdOf(domains, BaseDomain) IN
     /\ domains' = RecordAfterSyncCrawl(domains, BaseDomain, pagesCrawled, Len(allLinks),
                                        config.maxDepth, ncrawl)
     /\ outgoing_links' = DeleteByDomainId(outgoing_links, domainId) \o LinkRows(allLinks, domainId)
     /\ outgoing_domains' =
          DeleteByDomainId(outgoing_domains, domainId) \o DomainRows(allLinks, domainId)
  /\ http' = [http EXCEPT !.status = 200]
  /\ cpc' = "idle"
  /\ ResetProcess
  /\ UNCHANGED <<crawl_states, persist, ncrawl>>

\* crawlWebsite has resolved in the detached callback of the background
\* handler (part_006:321-326): the callback logs and ends; the UPDATE of its
\* catch branch (lines 327-336) is not reached, crawlWebsite catches every
\* error itself (comprehensive-crawler.ts:124-131)
FinishBackground ==
  /\ cpc \in {"finishing", "failed"}
  /\ config.handler = "background"
  /\ cpc' = "idle"
  /\ ResetProcess
  /\ UNCHANGED <<dbVars, http, ncrawl>>

\* an exception reaches the catch-all of crawlWebsite
\* (comprehensive-crawler.ts:124-131): the crawl stops and crawlWebsite
\* resolves with {links: [], stats: zeros, error: message}
Throw ==
  /\ cpc \in {"loading", "seeding", "crawling"}
  /\ cpc' = "failed"
  /\ UNCHANGED <<config, sm, memVars, workerVars, dbVars, http, ncrawl>>

\* crawlWebsite has returned a result with an error to the synchronous
\* handler, which answers 500 and writes nothing (route.ts:68-70)
FinishSyncError ==
  /\ cpc = "failed"
  /\ config.handler = "sync"
  /\ http' = [http EXCEPT !.status = 500]
  /\ cpc' = "idle"
  /\ ResetProcess
  /\ UNCHANGED <<dbVars, ncrawl>>

\* the process is killed while a crawl runs: memory is lost, the tables stay
Crash ==
  /\ cpc # "idle"
  /\ cpc' = "idle"
  /\ ResetProcess
  /\ UNCHANGED <<dbVars, http, ncrawl>>

\* ------------------------------------------------ the crawler called directly
\* new ComprehensiveCrawler(config).crawlWebsite(startUrl) by a caller that
\* sets the discovery flags itself (constructor, comprehensive-crawler.ts:44-58;
\* crawlWebsite, lines 60-91); both handlers fix respectRobots = true
CrawlWebsite(startUrl, maxPages, concurrency, followSitemaps, respectRobots) ==
  /\ cpc = "idle"
  /\ ncrawl < MaxCrawls
  /\ BeginCrawl([NewConfig("caller", maxPages, MaxDepthBound, concurrency, TRUE, followSitemaps,
                           FALSE, 0) EXCEPT !.respectRobots = respectRobots])
  /\ http' = [url |-> startUrl, status |-> 0]
  /\ UNCHANGED dbVars

\* crawlWebsite resolves with its result (lines 112-123) and the caller drops the crawler
CrawlWebsiteReturn ==
  /\ cpc = "finishing"
  /\ config.handler = "caller"
  /\ cpc' = "idle"
  /\ ResetProcess
  /\ UNCHANGED <<dbVars, http, ncrawl>>

\* crawlWebsite up to its first await, on a server that fails to serve the
\* URLs of down while the crawl runs
CrawlDuringOutage(down, maxPages, followSitemaps, respectRobots) ==
  /\ cpc = "idle"
  /\ ncrawl < MaxCrawls
  /\ config' = [NewConfig("caller", maxPages, MaxDepthBound, 1, TRUE, followSitemaps, FALSE, 0)
                  EXCEPT !.respectRobots = respectRobots]
  /\ discoveredUrls' = <<>>
  /\ crawledUrls' = {}
  /\ urlQueue' = <<>>
  /\ allLinks' = <<>>
  /\ sitemapCache' = EmptyCache
  /\ robotsCache' = {}
  /\ pagesCrawled' = 0
  /\ crawlErrors' = 0
  /\ wpc' = [w \in Workers |-> "off"]
  /\ wcur' = [w \in Workers |-> NoEntry]
  /\ skippedDeep' = {}
  /\ sm' = [NoDiscovery EXCEPT !.down = down]
  /\ cpc' = "seeding"
  /\ http' = [url |-> Root, status |-> 0]
  /\ ncrawl' = ncrawl + 1
  /\ UNCHANGED dbVars

\* ------------------------------------------ sitemap discovery, call by call
\* crawlWebsite with followSitemaps and without respectRobots, its sitemap
\* discovery followed one call of parseSitemap at a time
\* (comprehensive-crawler.ts:252-315).  sm.docs are the sitemap documents the
\* server holds, sm.todo the sitemap URLs discoverFromSitemaps has still to
\* try, sm.stack the calls of parseSitemap that have not returned, innermost
\* last, each with the <loc> matches it has still to handle and the urls it
\* has collected; of a nest deeper than MaxNesting the innermost calls are
\* kept and sm.outer says that more are pending outside them.  sm.fetched
\* are the sitemap URLs handed to retryFetch so far, sm.refetched those
\* handed to it again.
\* two sitemaps that list each other
CycleDocs == (SmMain :> <<SmNews>>) @@ (SmNews :> <<Home, SmMain>>)
DocSets == {SitemapDocs, CycleDocs}

\* retryFetch(sitemapUrl) is called (line 282)
Fetched(s, u) ==
  IF u \in s.fetched THEN [s EXCEPT !.refetched = @ \cup {u}]
  ELSE [s EXCEPT !.fetched = @ \cup {u}]

\* a call is entered: the innermost MaxNesting calls are kept
Push(s, frame) ==
  IF Len(s.stack) < MaxNesting THEN [s EXCEPT !.stack = Append(@, frame)]
  ELSE [s EXCEPT !.stack = Append(Tail(@), frame), !.outer = TRUE]

\* crawlWebsite up to the first call of parseSitemap (lines 60-95, 252-262)
DiscoverStart(docs, maxPages, depth) ==
  LET cfg == [NewConfig("caller", maxPages, depth, 1, TRUE, TRUE, FALSE, 0)
                EXCEPT !.respectRobots = FALSE]
      fr == addUrlToQueue(cfg, [discovered |-> <<>>, queue |-> <<>>], Root, 0, "start",
                          "page", 10)
  IN /\ cpc = "idle"
     /\ ncrawl < MaxCrawls
     /\ config' = cfg
     /\ discoveredUrls' = fr.discovered
     /\ urlQueue' = fr.queue
     /\ crawledUrls' = {}
     /\ allLinks' = <<>>
     /\ sitemapCache' = EmptyCache
     /\ robotsCache' = {}
     /\ pagesCrawled' = 0
     /\ crawlErrors' = 0
     /\ wpc' = [w \in Workers |-> "off"]
     /\ wcur' = [w \in Workers |-> NoEntry]
     /\ skippedDeep' = {}
     /\ sm' = [NoDiscovery EXCEPT !.docs = docs,
                                   !.todo = <<SmMain, SmIndex, SmPlural, SmDir>>]
     /\ cpc' = "discovering"
     /\ http' = [url |-> Root, status |-> 0]
     /\ ncrawl' = ncrawl + 1
     /\ UNCHANGED dbVars

\* a call of parseSitemap returns to its caller, s = sm without the call:
\* discoverFromSitemaps admits the urls (lines 262-271), parseSitemap pushes
\* them on its own (lines 297-301); ok = FALSE is the error that either catches
Deliver(s, fr, ok, urls) ==
  IF s.stack = <<>>
    THEN [sm |-> [s EXCEPT !.todo = Tail(@)],
          fr |-> IF ok THEN admitSitemapUrls(config, fr, urls, "sitemap", BaseDomain) ELSE fr]
    ELSE [sm |-> [s EXCEPT ![ "stack" ][Len(s.stack)].locs = Tail(@),
                           ![ "stack" ][Len(s.stack)].urls = IF ok THEN @ \o urls ELSE @],
          fr |-> fr]

Frontier == [discovered |-> discoveredUrls, queue |-> urlQueue]

\* the sitemap URL the next call of parseSitemap is made with
Callee == IF sm.stack = <<>> THEN Head(sm.todo) ELSE Head(sm.stack[Len(sm.stack)].locs)

\* parseSitemap is called (lines 262, 297) and runs to its fetch: the cached
\* list is returned, or the fetch fails and the error is thrown, or the
\* document arrives and the loop over its <loc> matches begins (lines 276-290)
ParseSitemapCall ==
  /\ cpc = "discovering"
  /\ IF sm.stack = <<>> THEN sm.todo # <<>>
      ELSE /\ sm.stack[Len(sm.stack)].locs # <<>>
           /\ EndsWithXml(Head(sm.stack[Len(sm.stack)].locs))
  /\ LET u == Callee IN
     IF u \in DOMAIN sitemapCache
       THEN LET d == Deliver(sm, Frontier, TRUE, sitemapCache[u]) IN
            /\ sm' = d.sm
            /\ discoveredUrls' = d.fr.discovered
            /\ urlQueue' = d.fr.queue
     ELSE IF u \notin DOMAIN sm.docs
       THEN LET d == Deliver(Fetched(sm, u), Frontier, FALSE, <<>>) IN
            /\ sm' = d.sm
            /\ discoveredUrls' = d.fr.discovered
            /\ urlQueue' = d.fr.queue
     ELSE /\ sm' = Push(Fetched(sm, u), [url |-> u, locs |-> sm.docs[u], urls |-> <<>>])
          /\ UNCHANGED <<discoveredUrls, urlQueue>>
  /\ UNCHANGED <<config, crawledUrls, allLinks, sitemapCache, robotsCache, pagesCrawled,
                 crawlErrors, workerVars, dbVars, cpc, http, ncrawl>>

\* a <loc> that does not end in .xml (lines 302-306)
ParseLeaf ==
  /\ cpc = "discovering"
  /\ sm.stack # <<>>
  /\ sm.stack[Len(sm.stack)].locs # <<>>
  /\ ~EndsWithXml(Head(sm.stack[Len(sm.stack)].locs))
  /\ sm' = [sm EXCEPT ![ "stack" ][Len(sm.stack)].locs = Tail(@),
                      ![ "stack" ][Len(sm.stack)].urls =
                         IF Len(discoveredUrls) < config.maxPages
                           THEN Append(@, Head(sm.stack[Len(sm.stack)].locs)) ELSE @]
  /\ UNCHANGED <<config, memVars, workerVars, dbVars, cpc, http, ncrawl>>

\* the loop is over: the list is memoized and returned (lines 309-310)
ParseSitemapReturn ==
  /\ cpc = "discovering"
  /\ sm.stack # <<>>
  /\ Len(sm.stack) = 1 => ~sm.outer
  /\ sm.stack[Len(sm.stack)].locs = <<>>
  /\ LET top == sm.stack[Len(sm.stack)]
         d == Deliver([sm EXCEPT !.stack = SubSeq(@, 1, Len(@) - 1)], Frontier, TRUE, top.urls)
     IN /\ sitemapCache' = (top.url :> top.urls) @@ sitemapCache
        /\ sm' = d.sm
        /\ discoveredUrls' = d.fr.discovered
        /\ urlQueue' = d.fr.queue
  /\ UNCHANGED <<config, crawledUrls, allLinks, robotsCache, pagesCrawled, crawlErrors,
                 workerVars, dbVars, cpc, http, ncrawl>>

\* discoverFromSitemaps has tried its four URLs: the worker pool starts
\* (lines 102-103)
DiscoverEnd ==
  /\ cpc = "discovering"
  /\ sm.stack = <<>> /\ sm.todo = <<>> /\ ~sm.outer
  /\ LaunchPool(discoveredUrls, urlQueue, crawledUrls, allLinks, sitemapCache, robotsCache)
  /\ UNCHANGED <<config, sm, dbVars, http, ncrawl>>

\* ------------------------------------------------- the database client
\* The two lib/db modules of the repository; a build has one of them.
Builds == {"part_000", "part_001"}
StatusOf(pg, id) == IF id = 0 THEN "null" ELSE pg.status[id]

\* the module is loaded: client = null (line 3 of both)
ModuleLoaded(build) ==
  /\ cpc = "idle"
  /\ sm.pg.build = "none"
  /\ sm' = [sm EXCEPT !.pg.build = build]
  /\ UNCHANGED <<config, memVars, workerVars, dbVars, cpc, http, ncrawl>>

\* getDbClient up to its await, or to its return (part_000:10-26,
\* part_001:13-42): with client null a Client is made, assigned to client,
\* and connect() is awaited; otherwise client is returned as it is
GetDbClient(c) ==
  LET pg == sm.pg
      id == Len(pg.status) + 1
  IN /\ pg.build # "none"
     /\ pg.callers[c].pc = "idle"
     /\ IF pg.client = 0
          THEN /\ Len(pg.status) < MaxClients
               /\ sm' = [sm EXCEPT !.pg.client = id,
                                   !.pg.status = Append(@, "connecting"),
                                   !.pg.callers[c] = [NoCaller EXCEPT !.pc = "connecting",
                                                                      !.mine = id]]
          ELSE sm' = [sm EXCEPT !.pg.callers[c] =
                        [NoCaller EXCEPT !.out = "client", !.got = pg.client,
                                         !.gotStatus = StatusOf(pg, pg.client)]]
     /\ UNCHANGED <<config, memVars, workerVars, dbVars, cpc, http, ncrawl>>

\* connect() of the Client the caller made resolves or rejects.  Resolved:
\* the module variable client is returned, whatever it holds by now.
\* Rejected: part_000 lets the error out and leaves client as it is (no
\* catch), part_001 sets client = null and throws (lines 33-38).
ConnectReturn(c, ok) ==
  LET pg == sm.pg
      mine == pg.callers[c].mine
      status == [pg.status EXCEPT ![mine] = IF @ = "ended" THEN "ended"
                                            ELSE IF ok THEN "connected" ELSE "failed"]
  IN /\ pg.callers[c].pc = "connecting"
     /\ sm' = [sm EXCEPT
          !.pg.status = status,
          !.pg.client = IF ~ok /\ pg.build = "part_001" THEN 0 ELSE @,
          !.pg.callers[c] =
             IF ok THEN [NoCaller EXCEPT !.out = "client", !.got = pg.client,
                                         !.gotStatus = IF pg.client = 0 THEN "null"
                                                       ELSE status[pg.client]]
                   ELSE [NoCaller EXCEPT !.out = "error"]]
     /\ UNCHANGED <<config, memVars, workerVars, dbVars, cpc, http, ncrawl>>

\* closeDbClient up to its await (part_000:32-34, part_001:48-51)
CloseDbClient ==
  /\ sm.pg.client # 0
  /\ sm.pg.closing = 0
  /\ sm' = [sm EXCEPT !.pg.closing = sm.pg.client]
  /\ UNCHANGED <<config, memVars, workerVars, dbVars, cpc, http, ncrawl>>

\* client.end() resolves or rejects: resolved, client = null (part_000:35,
\* part_001:52); rejected, client stays
EndReturn(ok) ==
  /\ sm.pg.closing # 0
  /\ sm' = [sm EXCEPT !.pg.closing = 0,
                      !.pg.client = IF ok THEN 0 ELSE @,
                      !.pg.status[sm.pg.closing] = IF ok THEN "ended" ELSE @]
  /\ UNCHANGED <<config, memVars, workerVars, dbVars, cpc, http, ncrawl>>

\* ------------------------------------------- retryFetch, attempt by attempt
\* retryFetch(url, options, retries = 3, initialDelay = 500)
\* (comprehensive-crawler.ts:215-250) as parseSitemap and discoverFromRobots
\* call it.  sm.rf.i is the loop variable, sm.rf.outcomes the attempts made
\* ("ok": an OK response, "notok": a response with another status, "error":
\* fetch threw), sm.rf.waits the backoff sleeps in ms.
retries == 3
initialDelay == 500
RetryUrls == {RobotsTxt, SmMain, SmIndex, SmPlural, SmDir, SmRobots}
AttemptOutcomes == {"ok", "notok", "error"}

\* a catch block that sleeps after every failed attempt
CatchBlockAlwaysWaits(i) == "wait"

\* the catch block (lines 239-246)
CatchBlock(i) == IF i < retries - 1 THEN "wait" ELSE "throw"

\* the try block (lines 222-238)
TryBlock(i, outcome) ==
  CASE outcome = "ok"    -> "return"
    [] outcome = "notok" -> IF i < retries - 1 THEN "wait" ELSE "throw"
    [] OTHER             -> "throw"

\* one pass of the loop body: what is thrown in the try block is caught
LoopBody(i, outcome) ==
  IF TryBlock(i, outcome) = "throw" THEN CatchBlock(i) ELSE TryBlock(i, outcome)

RetryFetchCall(url) ==
  /\ cpc = "idle"
  /\ sm.rf.pc \in {"none", "returned", "thrown"}
  /\ sm' = [sm EXCEPT !.rf = [NoRetry EXCEPT !.pc = "attempting", !.url = url]]
  /\ UNCHANGED <<config, memVars, workerVars, dbVars, cpc, http, ncrawl>>

\* fetch(url, options) answers or throws (line 223)
Attempt(outcome) ==
  /\ sm.rf.pc = "attempting"
  /\ LET i == sm.rf.i
         next == LoopBody(i, outcome)
     IN sm' = [sm EXCEPT !.rf.outcomes = Append(@, outcome),
                         !.rf.pc = CASE next = "return" -> "returned"
                                     [] next = "wait"   -> "waiting"
                                     [] OTHER           -> "thrown",
                         !.rf.waits = IF next = "wait" THEN Append(@, initialDelay * 2^i)
                                      ELSE @]
  /\ UNCHANGED <<config, memVars, workerVars, dbVars, cpc, http, ncrawl>>

\* the backoff timer fires: i++ and the loop condition (line 221); the throw
\* after the loop is line 249
BackoffReturn ==
  /\ sm.rf.pc = "waiting"
  /\ sm' = [sm EXCEPT !.rf.i = @ + 1,
                      !.rf.pc = IF sm.rf.i + 1 < retries THEN "attempting" ELSE "thrown"]
  /\ UNCHANGED <<config, memVars, workerVars, dbVars, cpc, http, ncrawl>>

\* ------------------------------------- the result persisted by statements
\* The synchronous handler after crawlWebsite has resolved (route.ts:72-165),
\* one step per awaited statement, for requests that are in flight together:
\* each statement is its own HTTP query (neon, route.ts:4), nothing joins them
\* in a transaction.  The crawl results are those of crawls of the modelled
\* site that fetched the root page, or the root page and /home.
CrawlResults ==
  {[links |-> crawlPage(Root, BaseDomain).links, pages |-> 1],
   [links |-> crawlPage(Root, BaseDomain).links \o crawlPage(Home, BaseDomain).links,
    pages |-> 2]}

\* SELECT id FROM domains WHERE domain_name = $1 (route.ts:80-82); 0: no row
SelectDomainId(table, domainName) ==
  IF \E i \in 1..Len(table) : table[i].domain_name = domainName
    THEN DomainIdOf(table, domainName) ELSE 0

\* INSERT INTO outgoing_domains ... ON CONFLICT (domain_id, target_domain) DO
\* UPDATE SET link_count = EXCLUDED.link_count (route.ts:135-141)
UpsertDomainRow(rows, row) ==
  IF \E i \in 1..Len(rows) : /\ rows[i].domain_id = row.domain_id
                              /\ rows[i].target_domain = row.target_domain
    THEN [i \in 1..Len(rows) |->
            IF rows[i].domain_id = row.domain_id /\ rows[i].target_domain = row.target_domain
              THEN [rows[i] EXCEPT !.link_count = row.link_count] ELSE rows[i]]
    ELSE Append(rows, row)

\* crawlWebsite resolves for request r; groupLinksByDomain, then the SELECT (route.ts:66-82)
PersistSelect(r, result) ==
  /\ persist[r].pc = "none"
  /\ persist' = [persist EXCEPT ![r] = [NoPersist EXCEPT !.pc = "record", !.links = result.links,
                                          !.pages = result.pages,
                                          !.domainId = SelectDomainId(domains, BaseDomain)]]
  /\ UNCHANGED <<config, sm, memVars, workerVars, crawl_states, domains, outgoing_links,
                 outgoing_domains, cpc, http, ncrawl>>

\* the UPDATE of the row found, or the INSERT of a new row (route.ts:84-102);
\* an INSERT that meets the UNIQUE domain_name throws, the handler answers 500
\* (lines 166-174)
PersistRecord(r) ==
  /\ persist[r].pc = "record"
  /\ IF persist[r].domainId = 0 /\ SelectDomainId(domains, BaseDomain) # 0
       THEN /\ persist' = [persist EXCEPT ![r].pc = "done", ![r].status = 500]
            /\ UNCHANGED domains
       ELSE /\ domains' = RecordAfterSyncCrawl(domains, BaseDomain, persist[r].pages,
                                               Len(persist[r].links), MaxDepthBound, ncrawl)
            /\ persist' = [persist EXCEPT ![r].pc = "deleteLinks",
                                          ![r].domainId = DomainIdOf(domains, BaseDomain)]
  /\ UNCHANGED <<config, sm, memVars, workerVars, crawl_states, outgoing_links, outgoing_domains,
                 cpc, http, ncrawl>>

\* DELETE FROM outgoing_links WHERE domain_id = $id (route.ts:107)
PersistDeleteLinks(r) ==
  /\ persist[r].pc = "deleteLinks"
  /\ outgoing_links' = DeleteByDomainId(outgoing_links, persist[r].domainId)
  /\ persist' = [persist EXCEPT ![r].pc = "deleteDomains"]
  /\ UNCHANGED <<config, sm, memVars, workerVars, crawl_states, domains, outgoing_domains, cpc,
                 http, ncrawl>>

\* DELETE FROM outgoing_domains WHERE domain_id = $id (route.ts:108)
PersistDeleteDomains(r) ==
  /\ persist[r].pc = "deleteDomains"
  /\ outgoing_domains' = DeleteByDomainId(outgoing_domains, persist[r].domainId)
  /\ persist' = [persist EXCEPT ![r].pc = IF persist[r].links # <<>> THEN "insert" ELSE "respond",
                                ![r].k = 1]
  /\ UNCHANGED <<config, sm, memVars, workerVars, crawl_states, domains, outgoing_links, cpc,
                 http, ncrawl>>

\* one INSERT INTO outgoing_links of the loop (route.ts:113-127)
PersistInsertLink(r) ==
  /\ persist[r].pc = "insert"
  /\ outgoing_links' =
       Append(outgoing_links, LinkRows(persist[r].links, persist[r].domainId)[persist[r].k])
  /\ persist' = IF persist[r].k < Len(persist[r].links)
                  THEN [persist EXCEPT ![r].k = @ + 1]
                  ELSE [persist EXCEPT ![r].pc = "upsert", ![r].k = 1]
  /\ UNCHANGED <<config, sm, memVars, workerVars, crawl_states, domains, outgoing_domains, cpc,
                 http, ncrawl>>

\* one upsert into outgoing_domains of the loop (route.ts:132-143)
PersistUpsertDomain(r) ==
  /\ persist[r].pc = "upsert"
  /\ LET summaries == DomainRows(persist[r].links, persist[r].domainId) IN
     /\ outgoing_domains' = UpsertDomainRow(outgoing_domains, summaries[persist[r].k])
     /\ persist' = IF persist[r].k < Len(summaries)
                     THEN [persist EXCEPT ![r].k = @ + 1]
                     ELSE [persist EXCEPT ![r].pc = "respond"]
  /\ UNCHANGED <<config, sm, memVars, workerVars, crawl_states, domains, outgoing_links, cpc,
                 http, ncrawl>>

\* the response of the completed crawl (route.ts:146-165)
PersistRespond(r) ==
  /\ persist[r].pc = "respond"
  /\ persist' = [persist EXCEPT ![r].pc = "done", ![r].status = 200]
  /\ UNCHANGED <<config, sm, memVars, workerVars, crawl_states, domains, outgoing_links,
                 outgoing_domains, cpc, http, ncrawl>>

\* ------------------------------------------- the page counter at full scale
\* The worker loop (comprehensive-crawler.ts:378-434) on a site that never runs
\* out of pages, with the interval as the source has it: only the counter, the
\* positions of the workers and the checkpoint are kept, every fetch succeeds
\* and the frontier always holds a next URL.
MaxCountedPages == 100
saveIntervalInSource == 50

\* the crawl starts: performComprehensiveCrawl launches the pool (lines 370-372, 437-440)
CountStart(concurrency) ==
  /\ cpc = "idle"
  /\ ncrawl < MaxCrawls
  /\ config' = NewConfig("sync", MaxCountedPages, MaxDepthBound, concurrency, TRUE, FALSE,
                         FALSE, 0)
  /\ NewMemory
  /\ wpc' = [w \in Workers |-> IF w <= concurrency THEN "fetching" ELSE "off"]
  /\ wcur' = [w \in Workers |-> NoEntry]
  /\ skippedDeep' = {}
  /\ cpc' = "counting"
  /\ ncrawl' = ncrawl + 1
  /\ UNCHANGED <<dbVars, http>>

\* the page fetch of worker w answers: the counter, then the periodic save when
\* the counter is a multiple of the interval (lines 413-423)
CountPage(w) ==
  /\ cpc = "counting"
  /\ wpc[w] = "fetching"
  /\ pagesCrawled' = pagesCrawled + 1
  /\ IF (pagesCrawled + 1) % saveIntervalInSource = 0
       THEN /\ crawl_states' = saveState(Snapshot(discoveredUrls, crawledUrls, urlQueue,
                                                  allLinks, sitemapCache, robotsCache), TRUE)
            /\ wpc' = [wpc EXCEPT ![w] = "saving"]
       ELSE /\ crawl_states' = crawl_states
            /\ wpc' = [wpc EXCEPT ![w] = "delay"]
  /\ UNCHANGED <<config, sm, discoveredUrls, crawledUrls, urlQueue, allLinks, sitemapCache,
                 robotsCache, crawlErrors, wcur, skippedDeep, domains, linkVars, cpc, http,
                 ncrawl>>

\* the periodic saveState of worker w has answered (line 422)
CountSaveReturn(w) ==
  /\ cpc = "counting"
  /\ wpc[w] = "saving"
  /\ wpc' = [wpc EXCEPT ![w] = "delay"]
  /\ UNCHANGED <<config, sm, memVars, wcur, skippedDeep, dbVars, cpc, http, ncrawl>>

\* the crawlDelay timer of worker w fires and the loop condition is tested (lines 426, 380)
CountDelayReturn(w) ==
  /\ cpc = "counting"
  /\ wpc[w] = "delay"
  /\ wpc' = [wpc EXCEPT ![w] = IF pagesCrawled < config.maxPages THEN "fetching" ELSE "done"]
  /\ UNCHANGED <<config, sm, memVars, wcur, skippedDeep, dbVars, cpc, http, ncrawl>>

\* Promise.all resolves, the final saveState, the crawl is over (lines 443-449, 107-110)
CountFinalSave ==
  /\ cpc = "counting"
  /\ \A w \in Workers : wpc[w] \in {"done", "off"}
  /\ crawl_states' = saveState(Snapshot(discoveredUrls, crawledUrls, urlQueue, allLinks,
                                        sitemapCache, robotsCache), TRUE)
  /\ cpc' = "idle"
  /\ ResetProcess
  /\ UNCHANGED <<domains, linkVars, http, ncrawl>>

\* ---------------------------------------------------------- specification
\* the options a request is drawn from: the smallest values and the values at the bound
MaxPagesInputs == {1, MaxPagesBound - 1, MaxPagesBound}
DepthInputs == {0, MaxDepthBound}
ConcurrencyInputs == {1, MaxConcurrency}

\* the steps of a running crawl whose database queries succeed
CrawlStep ==
  \/ Seed
  \/ Load(TRUE)
  \/ \E w \in Workers : FetchReturn(w, TRUE)
  \/ \E w \in Workers : SaveReturn(w)
  \/ \E w \in Workers : DelayReturn(w)
  \/ \E w \in Workers : WaitReturn(w)
  \/ FinalSave(TRUE)

\* The crawl engine under every configuration a request can give it: requests
\* to the synchronous handler, the process may be killed at any time.
Next ==
  \/ \E maxPages \in MaxPagesInputs, depth \in DepthInputs, concurrency \in ConcurrencyInputs,
        includeSubdomains \in BOOLEAN, followSitemaps \in BOOLEAN, resume \in BOOLEAN :
       PostSync(maxPages, depth, concurrency, includeSubdomains, followSitemaps, resume)
  \/ CrawlStep
  \/ FinishSync
  \/ Crash

Spec == Init /\ [][Next]_vars

\* The crawl records under both handlers: requests that differ in resume and
\* followSitemaps, the other options at the largest value of the model.
RecordNext ==
  \/ \E followSitemaps \in BOOLEAN, resume \in BOOLEAN :
       \/ PostSync(MaxPagesBound, MaxDepthBound, MaxConcurrency, TRUE, followSitemaps, resume)
       \/ PostBackground(MaxPagesBound, MaxDepthBound, MaxConcurrency, TRUE, followSitemaps, resume)
  \/ CrawlStep
  \/ FinishSync
  \/ FinishBackground
  \/ Crash

RecordSpec == Init /\ [][RecordNext]_vars

\* Background crawls that nothing interrupts: requests to the background
\* handler under every configuration, the process is never killed.
BackgroundNext ==
  \/ \E maxPages \in MaxPagesInputs, depth \in DepthInputs, concurrency \in ConcurrencyInputs,
        includeSubdomains \in BOOLEAN, followSitemaps \in BOOLEAN, resume \in BOOLEAN :
       PostBackground(maxPages, depth, concurrency, includeSubdomains, followSitemaps, resume)
  \/ CrawlStep
  \/ FinishBackground

BackgroundSpec == Init /\ [][BackgroundNext]_vars

\* The start endpoint under requests of every kind of url: a request is
\* validated, then a valid one starts the crawl of the site.
UrlInputs == {NoUrl, BadUrl, FtpUrl, StartUrl}
StartNext ==
  \/ \E url \in UrlInputs : Reject(url)
  \/ \E url \in UrlInputs, followSitemaps \in BOOLEAN, resume \in BOOLEAN :
       /\ ValidateUrl(url) = "ok"
       /\ url = StartUrl
       /\ \/ PostSync(MaxPagesBound, MaxDepthBound, MaxConcurrency, TRUE, followSitemaps, resume)
          \/ PostBackground(MaxPagesBound, MaxDepthBound, MaxConcurrency, TRUE, followSitemaps,
                            resume)
  \/ CrawlStep
  \/ FinishSync
  \/ FinishBackground

StartSpec == Init /\ [][StartNext]_vars

\* Crawls over a database whose queries may fail: the load of the checkpoint
\* and every save either succeeds or throws; the process may be killed.
FaultNext ==
  \/ \E followSitemaps \in BOOLEAN, resume \in BOOLEAN :
       PostSync(MaxPagesBound, MaxDepthBound, MaxConcurrency, TRUE, followSitemaps, resume)
  \/ Seed
  \/ \E dbOk \in BOOLEAN : Load(dbOk)
  \/ \E w \in Workers, dbOk \in BOOLEAN : FetchReturn(w, dbOk)
  \/ \E w \in Workers : SaveReturn(w)
  \/ \E w \in Workers : DelayReturn(w)
  \/ \E w \in Workers : WaitReturn(w)
  \/ \E dbOk \in BOOLEAN : FinalSave(dbOk)
  \/ FinishSync
  \/ Crash

FaultSpec == Init /\ [][FaultNext]_vars

\* The crawler called directly on the root page, on the feed, which is not
\* HTML, and on /a, which redirects, with and without sitemap and robots
\* discovery.
CallerNext ==
  \/ \E startUrl \in {Root, Feed, PA}, maxPages \in MaxPagesInputs, concurrency \in ConcurrencyInputs,
        followSitemaps \in BOOLEAN, respectRobots \in BOOLEAN :
       CrawlWebsite(startUrl, maxPages, concurrency, followSitemaps, respectRobots)
  \/ Seed
  \/ \E w \in Workers : FetchReturn(w, TRUE)
  \/ \E w \in Workers : SaveReturn(w)
  \/ \E w \in Workers : DelayReturn(w)
  \/ \E w \in Workers : WaitReturn(w)
  \/ FinalSave(TRUE)
  \/ CrawlWebsiteReturn

CallerSpec == Init /\ [][CallerNext]_vars

\* The crawler called directly on the root page with sitemap discovery, over
\* servers whose sitemaps are nested or list each other; one worker, the
\* database queries succeed.
SitemapNext ==
  \/ \E docs \in DocSets, maxPages \in MaxPagesInputs, depth \in DepthInputs :
       DiscoverStart(docs, maxPages, depth)
  \/ ParseSitemapCall
  \/ ParseLeaf
  \/ ParseSitemapReturn
  \/ DiscoverEnd
  \/ \E w \in Workers : FetchReturn(w, TRUE)
  \/ \E w \in Workers : SaveReturn(w)
  \/ \E w \in Workers : DelayReturn(w)
  \/ \E w \in Workers : WaitReturn(w)
  \/ FinalSave(TRUE)
  \/ CrawlWebsiteReturn

SitemapSpec == Init /\ [][SitemapNext]_vars

\* The crawler called directly on the root page while the server fails to
\* serve robots.txt, a candidate sitemap, a nested sitemap or the sitemap
\* that robots.txt declares; one worker.
Outages == {{}, {RobotsTxt}, {SmMain}, {SmNews}, {SmRobots}, {SmMain, RobotsTxt}}
OutageNext ==
  \/ \E down \in Outages, maxPages \in MaxPagesInputs \cup {MaxCountedPages},
        followSitemaps \in BOOLEAN, respectRobots \in BOOLEAN :
       CrawlDuringOutage(down, maxPages, followSitemaps, respectRobots)
  \/ Seed
  \/ \E w \in Workers : FetchReturn(w, TRUE)
  \/ \E w \in Workers : SaveReturn(w)
  \/ \E w \in Workers : DelayReturn(w)
  \/ \E w \in Workers : WaitReturn(w)
  \/ FinalSave(TRUE)
  \/ CrawlWebsiteReturn

OutageSpec == Init /\ [][OutageNext]_vars

\* --------------------------------------------- link discovery, page by page
\* One worker whose fetches all succeed, for pages whose anchors and feed
\* links are given: the classifier flags and resume are the caller's,
\* maxPages is out of reach, there are no sitemaps and no robots.txt.
AnchorPages ==
  {Html(<<BlogP2, LangEn, Ext>>, <<>>, <<>>), Html(<<BlogEn, PB, BlogP2, PB>>, <<>>, <<>>),
   Html(<<Feed, LangEn>>, <<>>, <<Feed, PA>>)}

\* crawlWebsite up to its first await
ExtractStart(followPagination, includeLanguageVariants, resume) ==
  /\ cpc = "idle"
  /\ ncrawl < MaxCrawls
  /\ BeginCrawl([NewConfig("caller", MaxCountedPages, MaxDepthBound, 1, TRUE, FALSE, resume, 0)
                   EXCEPT !.respectRobots = FALSE, !.followPagination = followPagination,
                          !.includeLanguageVariants = includeLanguageVariants])
  /\ http' = [url |-> Root, status |-> 0]
  /\ UNCHANGED dbVars

\* the page fetch of the worker answers with the page html, not redirected
\* (lines 410-426): links, counter, admission of the URLs of the page, the
\* periodic saveState
ExtractPage(html) ==
  /\ cpc = "crawling"
  /\ wpc[1] = "fetching"
  /\ LET url == wcur[1].url
         links == allLinks \o extractExternalLinks(html.anchors, url, BaseDomain, {}, <<>>)
         crawled == crawledUrls \cup {url}
         pages == pagesCrawled + 1
         fr == discoverUrlsFromPage(config, Frontier, url, html, BaseDomain, wcur[1].depth)
         saveDue == pages % saveInterval = 0
     IN /\ allLinks' = links
        /\ crawledUrls' = crawled
        /\ pagesCrawled' = pages
        /\ discoveredUrls' = fr.discovered
        /\ urlQueue' = fr.queue
        /\ crawl_states' =
             IF saveDue
               THEN saveState(Snapshot(fr.discovered, crawled, fr.queue, links, sitemapCache,
                                       robotsCache), TRUE)
               ELSE crawl_states
        /\ wpc' = [wpc EXCEPT ![1] = IF saveDue THEN "saving" ELSE "delay"]
  /\ UNCHANGED <<config, sm, sitemapCache, robotsCache, crawlErrors, wcur, skippedDeep,
                 domains, linkVars, cpc, http, ncrawl>>

\* The anchors of pages admitted under every setting of the classifier flags.
AnchorNext ==
  \/ \E followPagination \in BOOLEAN, includeLanguageVariants \in BOOLEAN, resume \in BOOLEAN :
       ExtractStart(followPagination, includeLanguageVariants, resume)
  \/ Seed
  \/ Load(TRUE)
  \/ \E html \in AnchorPages : ExtractPage(html)
  \/ SaveReturn(1)
  \/ DelayReturn(1)
  \/ WaitReturn(1)
  \/ FinalSave(TRUE)
  \/ CrawlWebsiteReturn
  \/ Crash

AnchorSpec == Init /\ [][AnchorNext]_vars

\* Crawls of one worker that resume, or not, from a stored state that may
\* have been modified outside the crawler; the query of loadState may fail.
StoredNext ==
  \/ \E resume \in BOOLEAN : ExtractStart(TRUE, TRUE, resume)
  \/ Seed
  \/ \E dbOk \in BOOLEAN : LoadStored(dbOk)
  \/ \E member \in SetAndMapMembers : StateDataModified(member)
  \/ FetchReturn(1, TRUE)
  \/ SaveReturn(1)
  \/ DelayReturn(1)
  \/ WaitReturn(1)
  \/ FinalSave(TRUE)
  \/ CrawlWebsiteReturn
  \/ Crash

StoredSpec == Init /\ [][StoredNext]_vars

\* Concurrent calls of getDbClient and closeDbClient, for every outcome of
\* connect() and end(), in both builds.
DbClientNext ==
  \/ \E build \in Builds : ModuleLoaded(build)
  \/ \E c \in Workers : GetDbClient(c)
  \/ \E c \in Workers, ok \in BOOLEAN : ConnectReturn(c, ok)
  \/ CloseDbClient
  \/ \E ok \in BOOLEAN : EndReturn(ok)

DbClientSpec == Init /\ [][DbClientNext]_vars

\* The fetches of robots.txt and of the sitemaps, attempt by attempt, for
\* every outcome of every attempt.
RetryNext ==
  \/ \E url \in RetryUrls : RetryFetchCall(url)
  \/ \E outcome \in AttemptOutcomes : Attempt(outcome)
  \/ BackoffReturn

RetrySpec == Init /\ [][RetryNext]_vars

\* the same crawls when every step that can be taken is taken in the end:
\* fetches return and the event loop runs every continuation
FairSitemapSpec == SitemapSpec /\ WF_vars(SitemapNext)

\* Requests in flight together whose crawls have resolved and that persist
\* their results.
PersistNext ==
  \/ \E r \in Requests, result \in CrawlResults : PersistSelect(r, result)
  \/ \E r \in Requests : PersistRecord(r)
  \/ \E r \in Requests : PersistDeleteLinks(r)
  \/ \E r \in Requests : PersistDeleteDomains(r)
  \/ \E r \in Requests : PersistInsertLink(r)
  \/ \E r \in Requests : PersistUpsertDomain(r)
  \/ \E r \in Requests : PersistRespond(r)

PersistSpec == Init /\ [][PersistNext]_vars

\* The page counter of a crawl of MaxCountedPages pages under each number of workers.
CountNext ==
  \/ \E concurrency \in ConcurrencyInputs : CountStart(concurrency)
  \/ \E w \in Workers : CountPage(w)
  \/ \E w \in Workers : CountSaveReturn(w)
  \/ \E w \in Workers : CountDelayReturn(w)
  \/ CountFinalSave

CountSpec == Init /\ [][CountNext]_vars

\* Crawls that may end in a fatal error: both handlers, an exception may
\* reach the catch-all of crawlWebsite at any point of the crawl; the process
\* is not killed.
FatalNext ==
  \/ \E followSitemaps \in BOOLEAN, resume \in BOOLEAN :
       \/ PostSync(MaxPagesBound, MaxDepthBound, MaxConcurrency, TRUE, followSitemaps, resume)
       \/ PostBackground(MaxPagesBound, MaxDepthBound, MaxConcurrency, TRUE, followSitemaps, resume)
  \/ CrawlStep
  \/ Throw
  \/ FinishSync
  \/ FinishSyncError
  \/ FinishBackground

FatalSpec == Init /\ [][FatalNext]_vars

\* ------------------------------------------------------------- properties
\* worker w has popped an entry and its page fetch is in flight
Fetching(w) == cpc = "crawling" /\ wpc[w] = "fetching"
\* worker w pops an entry for a fetch in this step
Pops(w) == wpc'[w] = "fetching" /\ (wpc[w] # "fetching" \/ wcur'[w] # wcur[w])
\* admission order: the position of a URL in the insertion-ordered discovered set
Admitted(discovered, url) == IndexOf(discovered, url)

\* C1: in every state of a crawl, fresh or resumed, the discovered set holds
\* at most maxPages URLs.
DiscoveredWithinMaxPages ==
  cpc \in {"crawling", "finishing"} => Len(discoveredUrls) <= config.maxPages

\* C2: every page fetch that completes marks a final URL that was not in the
\* crawled set before: no pop leads to a fetch whose final URL is already crawled.
NoRepeatedFetch ==
  [][\A w \in Workers :
       (Fetching(w) /\ pagesCrawled' = pagesCrawled + 1 /\ wpc'[w] # "fetching")
         => FetchPage(wcur[w].url).finalUrl \notin crawledUrls]_vars

\* C3: the frontier is kept in descending priority order and an entry that a
\* worker pops has a priority greater than or equal to that of every entry
\* still in the frontier at that moment.
FrontierSorted ==
  \A i, j \in 1..Len(urlQueue) : i < j => urlQueue[i].priority >= urlQueue[j].priority
PopTakesHighestPriority ==
  /\ []FrontierSorted
  /\ [][\A w \in Workers : Pops(w) =>
          \A i \in 1..Len(urlQueue') : wcur'[w].priority >= urlQueue'[i].priority]_vars
\* a worker fetches an entry while an entry of lower priority that was
\* admitted earlier is still in the frontier
PopOvertakesEarlierAdmission ==
  \E w \in Workers : /\ Fetching(w)
                     /\ \E i \in 1..Len(urlQueue) :
                          /\ urlQueue[i].priority < wcur[w].priority
                          /\ Admitted(discoveredUrls, urlQueue[i].url)
                               < Admitted(discoveredUrls, wcur[w].url)

\* C4: among entries of equal priority the frontier keeps admission order, and
\* a popped entry was admitted before every entry of its priority that is
\* still in the frontier; also for a frontier loaded from a checkpoint.
FrontierFifo ==
  \A i, j \in 1..Len(urlQueue) :
    (i < j /\ urlQueue[i].priority = urlQueue[j].priority)
      => Admitted(discoveredUrls, urlQueue[i].url) < Admitted(discoveredUrls, urlQueue[j].url)
FetchedUrlInScope ==
  \A w \in Workers : Fetching(w) => shouldCrawlUrl(config, wcur[w].url, BaseDomain)

\* C6: no entry deeper than maxDepth is fetched; an entry that is popped and
\* skipped for its depth is not marked crawled, and the skip counts no page.
FetchWithinMaxDepth == \A w \in Workers : Fetching(w) => wcur[w].depth <= config.maxDepth
DeepEntriesSkipped ==
  /\ []FetchWithinMaxDepth
  /\ [][(skippedDeep' \ skippedDeep # {}) =>
          /\ (skippedDeep' \ skippedDeep) \cap crawledUrls' = {}
          /\ pagesCrawled' <= pagesCrawled]_vars
\* an admitted entry has been popped and skipped for its depth
DeepEntrySkipped ==
  /\ cpc = "crawling"
  /\ pagesCrawled > 0
  /\ \E u \in skippedDeep : Contains(discoveredUrls, u) /\ u \notin crawledUrls

\* C7: every external-link record has a target domain that differs from the
\* base domain and does not end with "." + base domain.
ExternalLinksLeaveBaseDomain ==
  \A i \in 1..Len(allLinks) :
    /\ allLinks[i].target_domain # BaseDomain
    /\ ~EndsWithDot(allLinks[i].target_domain, BaseDomain)
\* a page with an anchor to a subdomain and an anchor to another site has
\* been fetched, under either setting of includeSubdomains
SubdomainAnchorSeen(includeSubdomains) ==
  /\ cpc = "crawling"
  /\ config.includeSubdomains = includeSubdomains
  /\ Root \in crawledUrls
  /\ \E i \in 1..Len(allLinks) : allLinks[i].source_url = Root
PageWithSubdomainAnchorCrawled == SubdomainAnchorSeen(TRUE)

\* C8: of a fetched HTML page, every anchor whose target is out of scope
\* under the crawl's includeSubdomains setting has an external-link record.
OutOfScopeAnchorsRecorded ==
  cpc = "crawling" =>
    \A u \in crawledUrls :
      Site(u).kind = "html" =>
        \A k \in 1..Len(Site(u).anchors) :
          ~shouldCrawlUrl(config, Site(u).anchors[k], BaseDomain)
            => \E i \in 1..Len(allLinks) : /\ allLinks[i].source_url = u
                                           /\ allLinks[i].target_url = Site(u).anchors[k]

\* C9: a crawl record keeps its id, its status only moves from processing to
\* completed or failed, and a record that is completed or failed is never
\* written again.
Terminal == {"completed", "failed"}
TerminalRecordsNeverRewritten ==
  [][\A i \in 1..Len(domains) :
       /\ i <= Len(domains')
       /\ domains'[i].id = domains[i].id
       /\ domains[i].status \in Terminal => domains'[i] = domains[i]
       /\ domains'[i].status # domains[i].status
            => (domains[i].status = "processing" /\ domains'[i].status \in Terminal)]_vars

\* C10: a crawl record created as processing, whose crawl runs to its end
\* without interruption, is completed: once the workers have exited, the
\* final checkpoint is saved and the crawl's last step has run, the record is
\* no longer processing.  (An ended crawl takes no further step, so a record
\* that is processing then stays processing.)
EndedCrawlIsCompleted ==
  cpc = "idle" => \A i \in 1..Len(domains) : domains[i].status # "processing"

\* C11: when a crawl has ended with a fatal error in the controller, the crawl
\* record of its domain has status failed.
FatalErrorSetsFailed ==
  [][(cpc = "failed" /\ cpc' = "idle") =>
       \E i \in 1..Len(domains') : /\ domains'[i].domain_name = BaseDomain
                                    /\ domains'[i].status = "failed"]_vars

\* C12: a start request whose url is missing, is no URL or has a scheme other
\* than http and https is answered with a validation error and changes no
\* crawl record, checkpoint, link row or crawl state; an http or https URL
\* passes validation and is not answered with a validation error.
MustReject(url) ==
  url = NoUrl \/ ~ParseUrl(url).ok \/ ParseUrl(url).protocol \notin {"http:", "https:"}
InvalidStartRejected ==
  /\ \A url \in UrlInputs \cup {HttpUrl} : MustReject(url) <=> ValidateUrl(url) # "ok"
  /\ ~MustReject(HttpUrl) /\ ~MustReject(StartUrl)
  /\ [][ncrawl' # ncrawl =>
          IF MustReject(http'.url)
            THEN /\ http'.status = 400
                 /\ UNCHANGED <<config, sm, memVars, workerVars, dbVars, cpc>>
            ELSE http'.status # 400]_vars
\* a request with an ftp URL has been rejected after an earlier crawl
RejectedAfterCrawl ==
  /\ http = [url |-> FtpUrl, status |-> 400]
  /\ domains # <<>>
  /\ cpc = "idle"

\* C13: when resume is true, a checkpoint of the base domain exists and its
\* frontier is not empty, the crawl runs on the loaded state and makes no
\* seeding fetch; in every other case the crawl is seeded.
SeedingIffNoLoadedFrontier ==
  [][(cpc \in {"loading", "seeding"} /\ cpc' = "crawling") =>
       IF config.resume /\ crawl_states.saved /\ crawl_states.urlQueue # <<>>
         THEN /\ discoveredUrls' = crawl_states.discoveredUrls
              /\ crawledUrls' = Range(crawl_states.crawledUrls)
              /\ sitemapCache' = NewMap(crawl_states.sitemapCache)
         ELSE /\ Contains(discoveredUrls', StartUrl)
              /\ BaseDomain \in robotsCache']_vars

\* C14: a crawl started with resume = true right after a crawl of the start
\* URL has completed is a no-op on the frontier: the frontier stays empty, no
\* page is fetched, and the crawled set is the one of the final checkpoint.
PreviousCrawlCompleted ==
  \E i \in 1..Len(domains) : /\ domains[i].domain_name = BaseDomain
                              /\ domains[i].status = "completed"
                              /\ domains[i].updated_at = ncrawl - 1
ResumeAfterCompletedIsNoOp ==
  (config.resume /\ cpc \in {"crawling", "finishing"} /\ PreviousCrawlCompleted) =>
    /\ urlQueue = <<>>
    /\ \A w \in Workers : wpc[w] # "fetching"
    /\ pagesCrawled = 0 /\ crawlErrors = 0
    /\ crawl_states.saved /\ crawledUrls = Range(crawl_states.crawledUrls)

CheckpointEveryTwentyPages ==
  [][(pagesCrawled' = pagesCrawled + 1 /\ pagesCrawled' % 20 = 0) =>
       \E w \in Workers : wpc[w] = "fetching" /\ wpc'[w] = "saving" /\ crawl_states'.saved]_vars

\* C17: a failing checkpoint save never aborts the crawl: the crawl never
\* takes the error exit, the error counter counts failed page fetches only,
\* and the worker whose page was counted goes on to its save or its delay
\* with the counters of a worker whose save succeeded.
FailedFetches ==
  Cardinality({i \in 1..Len(discoveredUrls) :
                 /\ ~FetchPage(discoveredUrls[i]).ok
                 /\ \A j \in 1..Len(urlQueue) : urlQueue[j].url # discoveredUrls[i]
                 /\ \A w \in Workers : ~(Fetching(w) /\ wcur[w].url = discoveredUrls[i])})
LinkSinkAppendOnly ==
  [][/\ Len(outgoing_links') >= Len(outgoing_links)
     /\ SubSeq(outgoing_links', 1, Len(outgoing_links)) = outgoing_links
     /\ Len(outgoing_domains') >= Len(outgoing_domains)
     /\ SubSeq(outgoing_domains', 1, Len(outgoing_domains)) = outgoing_domains]_vars

\* C19: when a crawl ends in failure after some pages were crawled, the
\* external links extracted from those pages are persisted: at the step that
\* ends the failed crawl every extracted link has its row in outgoing_links.
FailureKeepsExtractedLinks ==
  [][(cpc = "failed" /\ cpc' = "idle") =>
       \A i \in 1..Len(allLinks) :
         \E j \in 1..Len(outgoing_links') :
           /\ outgoing_links'[j].source_url = allLinks[i].source_url
           /\ outgoing_links'[j].target_url = allLinks[i].target_url]_vars

\* C20: the outgoing_links rows persisted for a crawl never hold two rows
\* with the same (crawl, source_url, target_url): a duplicate is discarded
\* at insert.
NoDuplicateLinkRows ==
  \A i, j \in 1..Len(outgoing_links) :
    (/\ outgoing_links[i].domain_id = outgoing_links[j].domain_id
     /\ outgoing_links[i].source_url = outgoing_links[j].source_url
     /\ outgoing_links[i].target_url = outgoing_links[j].target_url) => i = j

\* C21: a crawl resumed from a checkpoint saved after P pages counts on from
\* P: the count it reports at its end is P plus the pages fetched after the
\* resume.  Every URL of the crawled set stands for a page that was fetched,
\* before or after the resume, so the reported count is never below the size
\* of the crawled set.
ResumedCountContinues ==
  (cpc = "finishing" /\ config.resume) => pagesCrawled >= Cardinality(crawledUrls)

\* C22: after a crawl completes, every target domain's outgoing_domains row
\* has a link_count equal to the number of outgoing_links rows with that
\* target domain, every link row has such a row, and the link counts sum to
\* the total_external_links of the crawl record.
RECURSIVE SumLinkCount(_)
SumLinkCount(rows) ==
  IF rows = <<>> THEN 0 ELSE Head(rows).link_count + SumLinkCount(Tail(rows))
NothingInProgress ==
  /\ cpc = "idle"
  /\ \A r \in Requests : persist[r].pc \in {"none", "done"}
AggregatesMatchLinkRows ==
  NothingInProgress =>
    /\ \A i \in 1..Len(outgoing_domains) :
         outgoing_domains[i].link_count =
           Cardinality({j \in 1..Len(outgoing_links) :
                          /\ outgoing_links[j].domain_id = outgoing_domains[i].domain_id
                          /\ outgoing_links[j].target_domain = outgoing_domains[i].target_domain})
    /\ \A j \in 1..Len(outgoing_links) :
         \E i \in 1..Len(outgoing_domains) :
           /\ outgoing_domains[i].domain_id = outgoing_links[j].domain_id
           /\ outgoing_domains[i].target_domain = outgoing_links[j].target_domain
    /\ \A d \in 1..Len(domains) :
         domains[d].status = "completed" =>
           SumLinkCount(DeleteByDomainId(outgoing_domains, domains[d].id)) + domains[d].total_external_links
             = SumLinkCount(outgoing_domains)

\* C23: a page-fetch error adds one to the error counter and has no other
\* effect: the crawled set, the page counter, the link records, the
\* discovered set and the checkpoint stay as they are, the frontier only
\* loses what the worker pops next, the other workers are untouched and the
\* worker goes round its loop; a URL whose fetch failed does not come back
\* into the frontier or into a worker's hands during the crawl.
ServerFails(url) ==
  LET first == Site(url)
  IN (IF first.kind = "redirect" THEN Site(first.final) ELSE first).kind = "error"
IsSuffix(s, t) == Len(s) <= Len(t) /\ SubSeq(t, Len(t) - Len(s) + 1, Len(t)) = s
Attempted(url) ==
  /\ Contains(discoveredUrls, url)
  /\ \A i \in 1..Len(urlQueue) : urlQueue[i].url # url
  /\ \A w \in Workers : ~(Fetching(w) /\ wcur[w].url = url)
FetchErrorOnlyCounts ==
  /\ [][\A w \in Workers :
          (/\ Fetching(w) /\ ServerFails(wcur[w].url)
           /\ cpc' = "crawling" /\ <<wpc'[w], wcur'[w]>> # <<wpc[w], wcur[w]>>) =>
            /\ crawlErrors' = crawlErrors + 1
            /\ UNCHANGED <<crawledUrls, pagesCrawled, allLinks, discoveredUrls, crawl_states>>
            /\ IsSuffix(urlQueue', urlQueue)
            /\ \A v \in Workers \ {w} : wpc'[v] = wpc[v] /\ wcur'[v] = wcur[v]
            /\ wpc'[w] \in {"fetching", "waiting", "done"}
            /\ wcur[w].url \notin crawledUrls']_vars
  /\ [][\A i \in 1..Len(discoveredUrls) :
          (/\ ServerFails(discoveredUrls[i]) /\ Attempted(discoveredUrls[i])
           /\ cpc = "crawling" /\ cpc' = "crawling") => Attempted(discoveredUrls[i])']_vars
\* the fetch of /blog/b has failed while the other worker is fetching, and
\* the crawl goes on
FetchFailedCrawlGoesOn ==
  /\ cpc = "crawling" /\ crawlErrors = 1 /\ pagesCrawled >= 1
  /\ Attempted(PB) /\ PB \notin crawledUrls
  /\ \E w \in Workers : Fetching(w)

\* C24: a fetched page that is not HTML is recorded as crawled and counted,
\* yields no link record and no admission, and is not fetched again in the
\* crawl; a crawl that starts at such a page without sitemap or robots
\* discovery ends with one page crawled and no external link.
NotHtml(url) == FetchPage(url).ok /\ FetchPage(url).page.kind = "nonhtml"
FeedCrawledMidCrawl ==
  /\ cpc = "crawling" /\ http.url = Root /\ Feed \in crawledUrls

\* C25: when the fetch of a popped URL U is redirected to F, the crawled set
\* gains F and not U, every link record extracted from the page has
\* source_url = F, and the relative links of the page are resolved against
\* F: the entries admitted from the page have F as their source, and the
\* relative href of /home is admitted as /home?page=2.
Redirected(url) == Site(url).kind = "redirect" /\ FetchPage(url).ok
RedirectUsesFinalUrl ==
  [][\A w \in Workers :
       (/\ Fetching(w) /\ Redirected(wcur[w].url)
        /\ cpc' = "crawling" /\ <<wpc'[w], wcur'[w]>> # <<wpc[w], wcur[w]>>) =>
         LET U == wcur[w].url
             F == Site(U).final
         IN /\ crawledUrls' = crawledUrls \cup {F}
            /\ U \in crawledUrls' => U \in crawledUrls
            /\ \A i \in (Len(allLinks) + 1)..Len(allLinks') : allLinks'[i].source_url = F
            /\ \A i \in (Len(discoveredUrls) + 1)..Len(discoveredUrls') :
                 /\ discoveredUrls'[i] # Resolve(RelPage2, U)
                 /\ \A k \in 1..Len(urlQueue') :
                      urlQueue'[k].url = discoveredUrls'[i] => urlQueue'[k].source = F
                 /\ \A v \in Workers :
                      wcur'[v].url = discoveredUrls'[i] => wcur'[v].source = F]_vars
\* the crawl that started at /a, which redirects to /home, has recorded
\* /home, its link with /home as the source, and its relative href as
\* /home?page=2
RedirectedStartCrawled ==
  /\ http.url = PA /\ cpc = "crawling"
  /\ crawledUrls = {Home}
  /\ \E i \in 1..Len(allLinks) : allLinks[i].source_url = Home
  /\ Contains(discoveredUrls, HomeP2)

\* C26: /sitemap_index.xml points only to other sitemaps, nested to depth
\* two, one of which cannot be fetched.  The URLs that sitemap discovery
\* submits for it are the terminal leaves reachable from it, and after the
\* discovery every such leaf that is in scope is discovered unless
\* discovered has reached maxPages; the sitemap that fails takes away no
\* leaf but its own.
RECURSIVE Leaves(_)
Leaves(sitemapUrl) ==
  IF sitemapUrl \notin DOMAIN SitemapDocs THEN {}
  ELSE UNION {IF EndsWithXml(SitemapDocs[sitemapUrl][i])
                THEN Leaves(SitemapDocs[sitemapUrl][i])
                ELSE {SitemapDocs[sitemapUrl][i]} : i \in 1..Len(SitemapDocs[sitemapUrl])}
\* the step of the controller that runs the discovery, unless it restores a
\* frontier that is not empty
DiscoveryStep ==
  /\ cpc \in {"seeding", "loading"} /\ cpc' = "crawling"
  /\ config.followSitemaps
  /\ ~(cpc = "loading" /\ crawl_states.saved /\ crawl_states.urlQueue # <<>>)
NestedSitemapLeavesAdmitted ==
  [][DiscoveryStep =>
       /\ SmIndex \in DOMAIN sitemapCache'
       /\ \/ Range(sitemapCache'[SmIndex]) = Leaves(SmIndex)
          \/ Len(discoveredUrls') >= config.maxPages
       /\ \A u \in Leaves(SmIndex) :
            shouldCrawlUrl(config, u, BaseDomain) =>
              Contains(discoveredUrls', u) \/ Len(discoveredUrls') >= config.maxPages
       /\ \A k \in 1..Len(urlQueue') :
            (urlQueue'[k].source = "sitemap" /\ ~Contains(discoveredUrls, urlQueue'[k].url)) =>
              urlQueue'[k].url \in Leaves(SmMain) \cup Leaves(SmIndex)]_vars
\* a crawl started at /a has admitted / from the sitemap index, beyond the
\* nested sitemap that could not be fetched
LeafBehindFailedSitemap ==
  /\ http.url = PA /\ cpc = "crawling" /\ ~config.respectRobots
  /\ SmGone \notin DOMAIN sitemapCache /\ SmIndex \in DOMAIN sitemapCache
  /\ sitemapCache[SmIndex] = <<Root, Ext, Home>>
  /\ \E k \in 1..Len(urlQueue) : urlQueue[k].url = Root /\ urlQueue[k].source = "sitemap"

\* C27: every crawl over a finite site terminates: when every step that can
\* be taken is taken in the end, a crawl that has started its sitemap
\* discovery returns from crawlWebsite.
CrawlReturns == (cpc = "discovering") ~> (cpc = "idle")
\* a call of parseSitemap for a sitemap whose own call has not returned: the
\* cache holds no list for it before that call returns, so the same call is
\* made again, one level deeper each time
DiscoveryRecursesForEver ==
  /\ cpc = "discovering"
  /\ \E i, j \in 1..Len(sm.stack) : i < j /\ sm.stack[i].url = sm.stack[j].url
\* the crawls over the sitemaps without a cycle do return
AcyclicCrawlReturned ==
  /\ cpc = "finishing" /\ sm.docs = SitemapDocs /\ sm.todo = <<>>
  /\ SmIndex \in DOMAIN sitemapCache
\* followed call by call, the discovery over the sitemaps without a cycle
\* ends with the frontier and the cache that discoverFromSitemaps computes
StepwiseDiscoveryAgrees ==
  [][(cpc = "discovering" /\ cpc' = "crawling" /\ sm.docs = SitemapDocs) =>
       LET fr0 == addUrlToQueue(config, [discovered |-> <<>>, queue |-> <<>>], Root, 0,
                                "start", "page", 10)
           st == discoverFromSitemaps(config, [discovered |-> fr0.discovered,
                                               queue |-> fr0.queue, cache |-> EmptyCache],
                                      BaseDomain)
       IN /\ discoveredUrls = st.discovered
          /\ urlQueue = st.queue
          /\ sitemapCache = st.cache]_vars

\* C30: sitemap discovery fetches each sitemap URL at most once per crawl,
\* also when sitemaps list each other.
EachSitemapFetchedOnce == sm.refetched = {}
\* sitemap discovery nests no deeper than there are sitemap documents
NestingWithinDocuments == ~sm.outer /\ Len(sm.stack) <= Cardinality(DOMAIN sm.docs)

AllWorkersExited == cpc = "crawling" /\ \A w \in Workers : wpc[w] \in {"off", "done"}
EndsOnlyByDrain == AllWorkersExited => urlQueue = <<>>
\* the same for the crawls that restore no checkpoint
FreshCrawlEndsByDrain == (AllWorkersExited /\ ~config.resume) => urlQueue = <<>>

\* C31: no two checkpoint saves of a crawl are in progress at the same time:
\* at most one worker is inside its periodic saveState.
SavesInProgress == {w \in Workers : wpc[w] = "saving"}
OneSaveAtATime == Cardinality(SavesInProgress) <= 1

\* C32: between two consecutive page fetches of a worker there is a
\* crawlDelay sleep, whatever the outcome of the first: no step takes a
\* worker from the fetch of one entry straight into the fetch of another.
DelayBetweenFetches ==
  [][\A w \in Workers :
       (cpc = "crawling" /\ cpc' = "crawling" /\ wpc[w] = "fetching" /\ wpc'[w] = "fetching")
         => wcur'[w] = wcur[w]]_vars
\* the same for the fetches that succeed
DelayAfterSuccessfulFetch ==
  [][\A w \in Workers :
       (cpc = "crawling" /\ cpc' = "crawling" /\ wpc[w] = "fetching" /\ FetchPage(wcur[w].url).ok
        /\ wcur'[w] # wcur[w])
         => wpc'[w] \in {"saving", "delay"}]_vars

\* C33: a sitemap or robots fetch makes at most 3 attempts; it returns on
\* the first attempt that yields an OK response; when every attempt fails it
\* makes exactly 3 attempts and then raises an error; it waits 500 ms, then
\* twice as long, after a failed attempt, but not after the last one.
RetryFetchContract ==
  LET rf == sm.rf
      n == Len(rf.outcomes)
  IN /\ n <= 3
     /\ \A k \in 1..n : rf.outcomes[k] = "ok" => (k = n /\ rf.pc = "returned")
     /\ rf.pc = "returned" => (n >= 1 /\ rf.outcomes[n] = "ok")
     /\ rf.pc = "thrown" => (n = 3 /\ rf.waits = <<500, 1000>>)
     /\ rf.pc \in {"attempting", "waiting"} => n < 3
     /\ Len(rf.waits) = IF rf.pc \in {"returned", "thrown"} THEN n - 1
                        ELSE IF rf.pc = "waiting" THEN n ELSE rf.i
     /\ \A k \in 1..Len(rf.waits) : rf.waits[k] = IF k = 1 THEN 500 ELSE 2 * rf.waits[k - 1]
\* three attempts have failed, with a status and with thrown errors, after
\* waits of 500 and 1000 ms, and the error is raised
ThreeAttemptsFailed ==
  /\ sm.rf.pc = "thrown"
  /\ sm.rf.outcomes = <<"notok", "error", "notok">>
  /\ sm.rf.waits = <<500, 1000>>
\* the second attempt yields an OK response
SecondAttemptReturned ==
  /\ sm.rf.pc = "returned" /\ sm.rf.outcomes = <<"error", "ok">> /\ sm.rf.waits = <<500>>

\* C34: a failing fetch of robots.txt, of a candidate sitemap, of a sitemap
\* declared in robots.txt or of a nested sitemap does not abort the crawl:
\* after the discovery the worker pool runs, the start URL is in discovered
\* and in the frontier or with the first worker, every candidate sitemap
\* that is served has been parsed, and so has the sitemap that a served
\* robots.txt declares.
Candidates == {SmMain, SmIndex, SmPlural, SmDir}
DiscoverySurvivesFailures ==
  [][(cpc = "seeding" /\ cpc' = "crawling") =>
       /\ wpc'[1] # "off"
       /\ Contains(discoveredUrls', http.url)
       /\ \/ \E k \in 1..Len(urlQueue') : urlQueue'[k].url = http.url
          \/ wcur'[1].url = http.url
       /\ config.followSitemaps =>
            \A c \in Candidates : Served(c) => c \in DOMAIN sitemapCache'
       /\ (config.respectRobots /\ RobotsTxt \notin sm.down) =>
            /\ BaseDomain \in robotsCache'
            /\ \A i \in 1..Len(RobotsSitemaps) :
                 Served(RobotsSitemaps[i]) => RobotsSitemaps[i] \in DOMAIN sitemapCache']_vars
\* /sitemap.xml and /robots.txt could not be fetched; /sitemap_index.xml was
\* parsed all the same and the crawl has fetched the start URL
CrawledDespiteOutage ==
  /\ sm.down = {SmMain, RobotsTxt} /\ config.followSitemaps /\ config.respectRobots
  /\ cpc = "crawling"
  /\ Root \in crawledUrls
  /\ SmMain \notin DOMAIN sitemapCache /\ SmIndex \in DOMAIN sitemapCache
  /\ robotsCache = {}

\* C35: an in-scope anchor URL is admitted at depth + 1 with priority 7 if it
\* matches a high-value path pattern, else 6 if it is a language variant
\* (includeLanguageVariants on) or a pagination URL (followPagination on),
\* else 5, with type pagination exactly when followPagination is on and the
\* pagination classifier matches, and type internal otherwise.
ExtractionStep == cpc = "crawling" /\ wpc[1] = "fetching"
AdmittedAsAnchor(e) ==
  /\ ~Contains(discoveredUrls, e.url)
  /\ e.type \in {"internal", "pagination"}
ClassifiedAsDescribed(e) ==
  LET pagination == config.followPagination /\ isPaginationUrl(e.url)
      language == config.includeLanguageVariants /\ isLanguageVariant(e.url)
  IN /\ e.depth = wcur[1].depth + 1
     /\ e.source = wcur[1].url
     /\ e.type = IF pagination THEN "pagination" ELSE "internal"
     /\ e.priority = IF isHighValueUrl(e.url) THEN 7
                     ELSE IF pagination \/ language THEN 6 ELSE 5
AnchorClassifiedAsDescribed ==
  [][ExtractionStep =>
       \A e \in Range(urlQueue') : AdmittedAsAnchor(e) => ClassifiedAsDescribed(e)]_vars
\* what the assignments do: the last classifier that matches decides, so 6
\* wins over 7 for a high-value URL that is a language variant or a page
ClassifiedAsLastMatch(e) ==
  LET pagination == config.followPagination /\ isPaginationUrl(e.url)
      language == config.includeLanguageVariants /\ isLanguageVariant(e.url)
  IN /\ e.depth = wcur[1].depth + 1
     /\ e.source = wcur[1].url
     /\ e.type = IF pagination THEN "pagination" ELSE "internal"
     /\ e.priority = IF pagination \/ language THEN 6
                     ELSE IF isHighValueUrl(e.url) THEN 7 ELSE 5
AnchorClassifiedAsLastMatch ==
  [][ExtractionStep =>
       \A e \in Range(urlQueue') : AdmittedAsAnchor(e) => ClassifiedAsLastMatch(e)]_vars
\* /blog/?page=2, high-value and a pagination URL, waits in the frontier as
\* a pagination entry of priority 6 behind /blog/b of priority 7
OverlapAdmittedAsPagination ==
  /\ cpc = "crawling"
  /\ \E k \in 1..Len(urlQueue) : \E j \in 1..(k - 1) :
       /\ urlQueue[k].url = BlogP2 /\ urlQueue[k].priority = 6
       /\ urlQueue[k].type = "pagination"
       /\ urlQueue[j].url = PB /\ urlQueue[j].priority = 7

\* C36: the priority, depth, source and type of a frontier entry are fixed
\* at admission: the entry of a URL that was discovered before is, after
\* every step, an entry that was there before the step (in the frontier or
\* with a worker), a checkpoint holds entries of the frontier as they are,
\* and a loaded frontier holds the entries of the checkpoint as they are.
LiveEntries == Range(urlQueue) \cup ({wcur[w] : w \in Workers} \ {NoEntry})
SavedEntries == IF crawl_states.saved THEN Range(crawl_states.urlQueue) ELSE {}
EntryFieldsFixed ==
  [][/\ \A e \in LiveEntries' :
          /\ Contains(discoveredUrls, e.url) => e \in LiveEntries
          /\ (cpc = "loading" /\ crawl_states.saved
                /\ Contains(crawl_states.discoveredUrls, e.url)) => e \in SavedEntries
     /\ crawl_states' # crawl_states => SavedEntries' \subseteq LiveEntries']_vars
\* a crawl with includeLanguageVariants admitted /en/blog/b with priority 6
\* from the start page; the crawl resumed without the flag has loaded the
\* entry and has crawled /blog/b with a link to it, where it would get
\* priority 7 at depth 2: it waits as it was admitted, also in the checkpoint
RediscoveredEntryKept ==
  /\ cpc = "crawling" /\ config.resume /\ ~config.includeLanguageVariants
  /\ pagesCrawled = 1 /\ Cardinality(crawledUrls) = 2
  /\ wpc[1] = "saving"
  /\ \E e \in Range(urlQueue) :
       /\ e.url = BlogEn /\ e.priority = 6 /\ e.depth = 1 /\ e.source = Root
       /\ e \in SavedEntries
  /\ crawledUrls = {Root, PB} /\ Len(discoveredUrls) = 4 /\ allLinks = <<>>

\* C37: pagesCrawled never exceeds maxPages, whatever the number of workers.
PagesWithinMaxPages == cpc \in {"crawling", "finishing"} => pagesCrawled <= config.maxPages
\* the same for the crawls that do not resume: there the frontier never
\* held more than maxPages entries
FreshPagesWithinMaxPages ==
  (cpc \in {"crawling", "finishing"} /\ ~config.resume) => pagesCrawled <= config.maxPages

\* C38: a checkpoint never loses work: when a checkpoint is written, the URL
\* of every entry a worker has shifted and is still fetching is in the saved
\* frontier or in the saved crawled set, so a crawl resumed from the
\* checkpoint has it to fetch.
SavedUrls(state) ==
  {state.urlQueue[k].url : k \in 1..Len(state.urlQueue)} \cup Range(state.crawledUrls)
CheckpointHoldsInFlight ==
  [][(crawl_states' # crawl_states /\ cpc = "crawling") =>
       \A w \in Workers :
         wpc'[w] = "fetching" => wcur'[w].url \in SavedUrls(crawl_states')]_vars
\* what the checkpoint does hold: the entries that wait in the frontier
CheckpointHoldsWaiting ==
  [][(crawl_states' # crawl_states /\ cpc = "crawling") =>
       \A e \in Range(urlQueue') : e.url \in SavedUrls(crawl_states')]_vars

\* C39: when loading the checkpoint fails (the query throws, or the stored
\* blob is malformed), loadState leaves the discovered set, the crawled set,
\* the frontier, the link list and the caches as they were before the call,
\* and the crawl starts as a fresh crawl: seeded with its start URL alone.
LoadFails == cpc = "loading" /\ crawl_states.saved /\ Malformed(crawl_states) # "none"
FreshStart ==
  /\ discoveredUrls = <<http.url>>
  /\ crawledUrls = {} /\ allLinks = <<>>
  /\ robotsCache = {} /\ sitemapCache = EmptyCache
  /\ urlQueue = <<>>
  /\ wpc[1] = "fetching" /\ wcur[1].url = http.url
FailedLoadStartsFresh == [][(LoadFails /\ cpc' = "crawling") => FreshStart']_vars
\* the failures that happen before the first assignment of loadState: the
\* query throws, there is no row, or discoveredUrls is what is malformed
LoadFailsEarly ==
  /\ cpc = "loading"
  /\ crawl_states.saved => Malformed(crawl_states) = "discoveredUrls"
EarlyFailedLoadStartsFresh == [][(LoadFailsEarly /\ cpc' = "crawling") => FreshStart']_vars

\* C40: getDbClient never hands out a client whose connect() has not
\* completed successfully: whatever the interleaving of the calls and the
\* outcome of connect(), a caller that is handed a client is handed a
\* connected one.
HandedOutConnected ==
  \A c \in Workers :
    sm.pg.callers[c].out = "client" => sm.pg.callers[c].gotStatus = "connected"
\* at most one Client is connecting or connected at a time
LiveClients == {id \in 1..Len(sm.pg.status) : sm.pg.status[id] \in {"connecting", "connected"}}
AtMostOneLiveClient == Cardinality(LiveClients) <= 1

====
